---- MODULE Spec2Model ----
(***************************************************************************)
(* A model of the core of physiology_rag: the in-memory LRU/TTL cache      *)
(* (core/cache_manager.py), the semantic chunker (core/advanced_chunking   *)
(* .py), the batch embedding services (core/embeddings_service.py,         *)
(* core/async_embeddings.py) and the answer attribution mapper             *)
(* (core/answer_attribution.py).                                           *)
(***************************************************************************)
EXTENDS Integers, Sequences, FiniteSets, TLC

(***************************************************************************)
(* Bounds of the model.                                                    *)
(***************************************************************************)
MaxSizeBound == 2     \* max_size is drawn from 0..MaxSizeBound
MaxTtl == 1           \* ttl_seconds is drawn from 0..MaxTtl
MaxTime == 2          \* time.time() ranges over 0..MaxTime
MaxCount == 2         \* cap on hits + misses (gets between two clears)
MaxCalls == 2         \* calls after which the threads of the concurrent cache start no other
MaxSentences == 3     \* sentences of a document text
MaxChunks == 4        \* chunks after which the chunking loop is not followed further
MaxTexts == 3         \* texts given to one batch embedding call
MaxBatch == 2         \* largest batch_size given to a batch embedding call
MaxHours == 4         \* hours the clock of the embedding cache runs
MaxCacheCalls == 3    \* calls of the embedding cache that are followed
MaxAnswerParts == 2   \* paragraphs of an answer, and sentences of one of its paragraphs
MaxParagraphs == 2    \* paragraphs an answer is attributed to
LongAnswerParagraphs == 12  \* paragraphs of the one long answer

None == "None"
Values == {"v1", "v2"}

VARIABLES
    max_size,         \* InMemoryCache.max_size
    ttl_seconds,      \* InMemoryCache.ttl_seconds
    cache,            \* InMemoryCache.cache: OrderedDict as a sequence, oldest first
    hits,             \* InMemoryCache.hits
    misses,           \* InMemoryCache.misses
    now,              \* the value time.time() returns
    ret,              \* what the last completed operation returned, in field val
    mru,              \* history: distinct keys in order of last use since the last clear
    expired           \* history: an entry expired since the last clear

cacheVars == <<max_size, ttl_seconds, cache, hits, misses, now, ret, mru, expired>>

VARIABLES
    lock,             \* InMemoryCache.lock: the thread that holds it, or NoThread
    pc,               \* where each thread stands in the method it runs
    frame,            \* the locals of each thread's call
    snap,             \* history: the store as each thread found it when it got the lock
    opsDone           \* number of calls completed

threadVars == <<lock, pc, frame, snap, opsDone>>

VARIABLES
    text,             \* the document text given to chunk_text, as its sentences
    chunk_size,       \* SemanticChunker.chunk_size
    overlap_pct,      \* the overlap_ratio given to SemanticChunker, in percent
    all_boundaries,   \* create_overlapping_chunks: all_boundaries
    loop_i,           \* create_overlapping_chunks: the loop index i
    chunks,           \* create_overlapping_chunks: chunks
    returned,         \* what chunk_text returned
    cpc               \* where chunk_text stands: call, loop, filter, done

chunkVars == <<text, chunk_size, overlap_pct, all_boundaries, loop_i, chunks, returned, cpc>>

VARIABLES
    emode,            \* "sync": EmbeddingsService, "async": AsyncEmbeddingsService
    texts,            \* the texts given to the batch embedding call
    task_type,        \* the task_type of the call
    batch_size,       \* the batch_size given to the call, 0 for None
    ecache,           \* the embedding cache: what get_embedding finds for a key
    precached,        \* history: the embedding cache when the call started
    tasks,            \* one generate_single_embedding (or loop pass) per text
    completed,        \* history: the positions of the texts in the order they finished
    batch_i,          \* the loop index i of the batches
    batch_embeddings, \* generate_embeddings: batch_embeddings
    all_embeddings,   \* all_embeddings
    pauses,           \* history: the pacing delays the call has slept so far
    epc               \* where the call stands

embedVars == <<emode, texts, task_type, batch_size, ecache, precached, tasks, completed,
               batch_i, batch_embeddings, all_embeddings, pauses, epc>>

VARIABLES
    question,         \* the question given to create_attributed_answer: "str" or "None"
    answer,           \* the answer given to create_attributed_answer
    paragraphs,       \* len(paragraphs) of the paragraphs given with it
    answer_segments,  \* create_attributed_answer: answer_segments
    seg_i,            \* the segments mapped so far
    attributions,     \* create_attributed_answer: attributions
    responses,        \* history: what the mapping model did at each call
    attributed,       \* the AttributedAnswer returned
    apc               \* where create_attributed_answer stands

attrVars == <<question, answer, paragraphs, answer_segments, seg_i, attributions, responses,
              attributed, apc>>

VARIABLES
    disk,             \* EmbeddingCache.cache_dir: what the file of each digest holds
    last_set,         \* history: the last set_embedding of each digest
    eop               \* history: the last call of the EmbeddingCache

diskVars == <<disk, last_set, eop>>

VARIABLES
    chunk_text,       \* the chunk given to extract_paragraphs_from_chunk, as its lines
    sections,         \* extract_paragraphs_from_chunk: sections
    section_i,        \* the number of sections the outer loop has gone through
    chunk_paragraphs, \* extract_paragraphs_from_chunk: paragraphs
    paragraph_index,  \* extract_paragraphs_from_chunk: paragraph_index
    xpc               \* where the call stands: call, loop, done

extractVars == <<chunk_text, sections, section_i, chunk_paragraphs, paragraph_index, xpc>>

vars == <<cacheVars, threadVars, chunkVars, embedVars, attrVars, diskVars, extractVars>>

\* what the actions of one part leave alone
notCache == <<threadVars, chunkVars, embedVars, attrVars, diskVars, extractVars>>

otherParts == <<chunkVars, embedVars, attrVars, diskVars, extractVars>>

notThreads == <<ret, mru, expired, otherParts>>

notChunker == <<cacheVars, threadVars, embedVars, attrVars, diskVars, extractVars>>

notEmbed == <<cacheVars, threadVars, chunkVars, attrVars, diskVars, extractVars>>

notAttr == <<cacheVars, threadVars, chunkVars, embedVars, diskVars, extractVars>>

notEmbeddingCache == <<mru, expired, threadVars, chunkVars, embedVars, attrVars, extractVars>>

notExtract == <<cacheVars, threadVars, chunkVars, embedVars, attrVars, diskVars>>

(***************************************************************************)
(* Sequence helpers.                                                       *)
(***************************************************************************)
Range(s) == {s[i] : i \in 1..Len(s)}

Min(a, b) == IF a < b THEN a ELSE b

Max(a, b) == IF a > b THEN a ELSE b

RemoveAt(s, i) == SubSeq(s, 1, i - 1) \o SubSeq(s, i + 1, Len(s))

Without(s, x) == SelectSeq(s, LAMBDA y : y # x)

LastN(s, n) == SubSeq(s, Len(s) - Min(n, Len(s)) + 1, Len(s))

(***************************************************************************)
(* Cache keys.  A key given by a caller is a string or a dict; a string is *)
(* a sequence of tokens, a dict a sequence of <<field, value>> pairs in    *)
(* the order in which the caller built it.                                 *)
(***************************************************************************)
FieldOrder == <<"a", "b">>      \* the fields in lexicographic order

Rank(f) == CHOOSE i \in 1..Len(FieldOrder) : FieldOrder[i] = f

StrKey(s) == [kind |-> "str", s |-> s]

DictKey(fs) == [kind |-> "dict", fields |-> fs]

RawKeys ==
    { StrKey(<<"A">>), StrKey(<<"B">>),
      DictKey(<<<<"a", "1">>, <<"b", "2">>>>),
      DictKey(<<<<"b", "2">>, <<"a", "1">>>>) }

\* the fields written out in the order in which the caller built the dict
AsBuilt(fs) == fs

\* json.dumps(key, sort_keys=True): the fields sorted by name, then written out
SortFields(fs) ==
    CHOOSE s \in [1..Len(fs) -> Range(fs)] :
        /\ Range(s) = Range(fs)
        /\ \A i, j \in 1..Len(fs) : i < j => Rank(s[i][1]) < Rank(s[j][1])

RECURSIVE DumpPairs(_)
DumpPairs(fs) ==
    IF fs = <<>> THEN <<>>
    ELSE <<"\"", fs[1][1], "\"", ": ", fs[1][2]>>
         \o (IF Len(fs) > 1 THEN <<", ">> ELSE <<>>)
         \o DumpPairs(Tail(fs))

JsonDumpsSorted(fs) == <<"{">> \o DumpPairs(SortFields(fs)) \o <<"}">>

\* hashlib.md5(...).hexdigest(): a digest that stands for the hashed string
Md5(s) == [md5 |-> s]

generate_key(key) ==
    IF key.kind = "str" THEN Md5(key.s) ELSE Md5(JsonDumpsSorted(key.fields))

Digests == {generate_key(r) : r \in RawKeys}

(***************************************************************************)
(* CacheEntry and the OrderedDict operations.                              *)
(***************************************************************************)
\* set_at and set_value are history fields: only a set writes them
CacheEntry(k, v, t) ==
    [key |-> k, data |-> v, timestamp |-> t, access_count |-> 0, last_accessed |-> t,
     set_at |-> t, set_value |-> v]

Keys(c) == {c[i].key : i \in 1..Len(c)}

IndexOf(c, k) == CHOOSE i \in 1..Len(c) : c[i].key = k

Entry(c, k) == c[IndexOf(c, k)]

DelKey(c, k) == SelectSeq(c, LAMBDA e : e.key # k)

\* a get that updates the entry where it is and promotes nothing
MoveToEndInPlace(c, k, e) == [c EXCEPT ![IndexOf(c, k)] = e]

\* OrderedDict.move_to_end(k) after the entry was updated to e
MoveToEnd(c, k, e) == DelKey(c, k) \o <<e>>

\* an eviction loop that stops one entry early
RECURSIVE EvictOldestOffByOne(_, _)
EvictOldestOffByOne(c, m) == IF Len(c) > m + 1 THEN EvictOldestOffByOne(Tail(c), m) ELSE c

\* an eviction loop that deletes from the most-recently-used end
RECURSIVE EvictNewest(_, _)
EvictNewest(c, m) == IF Len(c) > m THEN EvictNewest(SubSeq(c, 1, Len(c) - 1), m) ELSE c

\* while len(self.cache) > self.max_size: del self.cache[next(iter(self.cache))]
RECURSIVE EvictOldest(_, _)
EvictOldest(c, m) == IF Len(c) > m THEN EvictOldest(Tail(c), m) ELSE c

\* an expiry test that measures the age from the last access
IsExpiredSinceAccess(e, t, ttl) == t - e.last_accessed > ttl

\* the expiry test of get
IsExpired(e, t, ttl) == t - e.timestamp > ttl

(***************************************************************************)
(* InMemoryCache.get, as a function of the store and the time it reads.    *)
(***************************************************************************)
GetEffect(c, h, m, ttl, k, t) ==
    IF k \notin Keys(c)
    THEN [cache |-> c, hits |-> h, misses |-> m + 1, ret |-> None]
    ELSE LET entry == Entry(c, k) IN
         IF IsExpired(entry, t, ttl)
         THEN [cache |-> DelKey(c, k), hits |-> h, misses |-> m + 1, ret |-> None]
         ELSE LET e2 == [entry EXCEPT !.access_count = @ + 1, !.last_accessed = t] IN
              [cache |-> MoveToEnd(c, k, e2), hits |-> h + 1, misses |-> m,
               ret |-> entry.data]

(***************************************************************************)
(* InMemoryCache.set                                                       *)
(***************************************************************************)
\* a set that stores nothing
SetEffectDropped(c, msz, k, v, t) == c

SetEffect(c, msz, k, v, t) == EvictOldest(DelKey(c, k) \o <<CacheEntry(k, v, t)>>, msz)

(***************************************************************************)
(* InMemoryCache.get_stats (hit_rate is hits / total_requests, a float,    *)
(* kept as the pair it is computed from)                                   *)
(***************************************************************************)
StatsOf(c, msz, h, m) ==
    [entries |-> Len(c), max_size |-> msz, hits |-> h, misses |-> m,
     total_requests |-> h + m]

(***************************************************************************)
(* The sequential cache: one caller, one action per method.                *)
(***************************************************************************)
Returned(x) == [val |-> x]

NoThread == "NoThread"

Threads == {"t1", "t2"}

IdleFrame == [op |-> "none"]

ThreadsIdle ==
    /\ lock = NoThread
    /\ pc = [t \in Threads |-> "idle"]
    /\ frame = [t \in Threads |-> IdleFrame]
    /\ snap = [t \in Threads |-> <<>>]
    /\ opsDone = 0

NoAnswer == [answer |-> <<>>, attributions |-> <<>>, paragraphs |-> 0,
             overall_confidence |-> [num |-> 0, den |-> 1]]

AttrIdle ==
    /\ question = "str"
    /\ answer = [is_str |-> TRUE, paragraphs |-> <<>>]
    /\ paragraphs = 0
    /\ answer_segments = <<>>
    /\ seg_i = 0
    /\ attributions = <<>>
    /\ responses = <<>>
    /\ attributed = NoAnswer
    /\ apc = "idle"

EmbedIdle ==
    /\ emode = "idle"
    /\ texts = <<>>
    /\ task_type = ""
    /\ batch_size = 0
    /\ ecache = {}
    /\ precached = {}
    /\ tasks = <<>>
    /\ completed = <<>>
    /\ batch_i = 0
    /\ batch_embeddings = <<>>
    /\ all_embeddings = <<>>
    /\ pauses = 0
    /\ epc = "idle"

NoDigest == Md5(<<>>)

NoFile == [kind |-> "no file", embedding |-> None, timestamp |-> 0]

\* history of a call of the EmbeddingCache: the operation, the digest of its
\* text, the time, whether the memory cache answered, what was done with
\* the file and what the file held, the value returned, and the call before
NoCall ==
    [op |-> "none", digest |-> NoDigest, at |-> 0, memory |-> "", file |-> "",
     held |-> NoFile, val |-> None, n |-> 0,
     after |-> [op |-> "none", digest |-> NoDigest, at |-> 0, file |-> "", val |-> None]]

ExtractIdle ==
    /\ chunk_text = <<>>
    /\ sections = <<>>
    /\ section_i = 0
    /\ chunk_paragraphs = <<>>
    /\ paragraph_index = 0
    /\ xpc = "idle"

DiskIdle ==
    /\ disk = <<>>
    /\ last_set = <<>>
    /\ eop = NoCall

CacheIdle ==
    /\ max_size = 0
    /\ ttl_seconds = 0
    /\ cache = <<>>
    /\ hits = 0
    /\ misses = 0
    /\ now = 0
    /\ ret = Returned(None)
    /\ mru = <<>>
    /\ expired = FALSE

ChunkerIdle ==
    /\ text = <<>>
    /\ chunk_size = 0
    /\ overlap_pct = 0
    /\ all_boundaries = <<>>
    /\ loop_i = 0
    /\ chunks = <<>>
    /\ returned = <<>>
    /\ cpc = "idle"

CacheInit ==
    /\ ExtractIdle
    /\ DiskIdle
    /\ ThreadsIdle
    /\ ChunkerIdle
    /\ EmbedIdle
    /\ AttrIdle
    /\ max_size \in 0..MaxSizeBound
    /\ ttl_seconds \in 0..MaxTtl
    /\ cache = <<>>
    /\ hits = 0
    /\ misses = 0
    /\ now = 0
    /\ ret = Returned(None)
    /\ mru = <<>>
    /\ expired = FALSE

Get(raw) ==
    LET k == generate_key(raw)
        r == GetEffect(cache, hits, misses, ttl_seconds, k, now)
    IN  /\ hits + misses < MaxCount
        /\ cache' = r.cache
        /\ hits' = r.hits
        /\ misses' = r.misses
        /\ ret' = Returned(r.ret)
        /\ mru' = IF r.ret # None THEN Without(mru, k) \o <<k>> ELSE mru
        /\ expired' = (expired \/ (k \in Keys(cache) /\ r.ret = None))
        /\ UNCHANGED <<max_size, ttl_seconds, now, notCache>>

Set(raw, v) ==
    LET k == generate_key(raw) IN
        /\ cache' = SetEffect(cache, max_size, k, v, now)
        /\ ret' = Returned(None)
        /\ mru' = Without(mru, k) \o <<k>>
        /\ UNCHANGED <<max_size, ttl_seconds, hits, misses, now, expired, notCache>>

Clear ==
    /\ cache' = <<>>
    /\ hits' = 0
    /\ misses' = 0
    /\ ret' = Returned(None)
    /\ mru' = <<>>
    /\ expired' = FALSE
    /\ UNCHANGED <<max_size, ttl_seconds, now, notCache>>

GetStats ==
    /\ ret' = [val |-> "stats", stats |-> StatsOf(cache, max_size, hits, misses)]
    /\ UNCHANGED <<max_size, ttl_seconds, cache, hits, misses, now, mru, expired, notCache>>

Tick ==
    /\ now < MaxTime
    /\ now' = now + 1
    /\ UNCHANGED <<max_size, ttl_seconds, cache, hits, misses, ret, mru, expired, notCache>>

CacheNext ==
    \/ \E raw \in RawKeys : Get(raw)
    \/ \E raw \in RawKeys, v \in Values : Set(raw, v)
    \/ Clear
    \/ GetStats
    \/ Tick

CacheSpec == CacheInit /\ [][CacheNext]_vars

(***************************************************************************)
(* Properties of the sequential cache.                                     *)
(***************************************************************************)
\* the key whose last use is the oldest among the keys in the store
LruKey ==
    mru[CHOOSE i \in 1..Len(mru) :
            /\ mru[i] \in Keys(cache)
            /\ \A j \in 1..(i - 1) : mru[j] \notin Keys(cache)]

IsSuffix(s, t) == Len(s) <= Len(t) /\ s = SubSeq(t, Len(t) - Len(s) + 1, Len(t))

\* C1: after every completed get, set or clear the store holds at most max_size
\* entries, and a set leaves the newest min(max_size, n) entries of the store it
\* built (the old entries without the key, then the new entry): it evicts from
\* the least-recently-used end, the entry just inserted included.
C1_CapacityBound ==
    /\ Len(cache) <= max_size
    /\ [][ /\ Len(cache') <= max_size
           /\ \A raw \in RawKeys, v \in Values :
                Set(raw, v) =>
                    LET k == generate_key(raw)
                        built == DelKey(cache, k) \o <<CacheEntry(k, v, now)>>
                    IN  /\ IsSuffix(cache', built)
                        /\ Len(cache') = Min(max_size, Len(built)) ]_vars

\* a set on a store of capacity 0 has evicted the entry it inserted
C1_Witness == max_size = 0 /\ Len(mru) > 0 /\ cache = <<>>

\* C2: once more than max_size distinct keys were used and nothing expired, the
\* store holds exactly the max_size most-recently-used keys, and an insertion
\* into a full store removes the key that was least recently used before it.
C2_KeepsMostRecentlyUsed ==
    [][ /\ (~expired' /\ Len(mru') > max_size) =>
              /\ Keys(cache') = Range(LastN(mru', max_size))
              /\ Len(cache') = max_size
        /\ \A raw \in RawKeys, v \in Values :
              ( /\ Set(raw, v)
                /\ ~expired
                /\ generate_key(raw) \notin Keys(cache)
                /\ Len(cache) = max_size
                /\ max_size > 0 ) => LruKey \notin Keys(cache') ]_vars

\* three keys were used on a store of two entries, which holds the last two
C2_Witness ==
    /\ ~expired
    /\ max_size = 2
    /\ Len(mru) = 3
    /\ Keys(cache) = {mru[2], mru[3]}

\* the state is the one a hit on the key last used has left
AfterHit == ret.val \in Values /\ mru # <<>>

HitKey == mru[Len(mru)]

Evicted == Keys(cache) \ Keys(cache')

\* C3 as stated: a hit moves the key to the most-recently-used end, the next
\* eviction after a hit on k never removes k, and a miss keeps the order of the
\* remaining entries.
C3_Original ==
    [][ /\ \A raw \in RawKeys :
              Get(raw) =>
                  LET k == generate_key(raw) IN
                      /\ ret'.val # None => cache'[Len(cache')].key = k
                      /\ ret'.val = None => cache' = DelKey(cache, k)
        /\ \A raw \in RawKeys, v \in Values :
              (AfterHit /\ Set(raw, v) /\ Evicted # {}) => HitKey \notin Evicted ]_vars

\* C3 amended: the eviction spares the hit key when the store holds another
\* entry; the key removed is then the least-recently-used other key.
C3_HitPromotes ==
    [][ /\ \A raw \in RawKeys :
              Get(raw) =>
                  LET k == generate_key(raw) IN
                      /\ ret'.val # None =>
                            /\ cache'[Len(cache')].key = k
                            /\ DelKey(cache', k) = DelKey(cache, k)
                      /\ ret'.val = None => cache' = DelKey(cache, k)
        /\ \A raw \in RawKeys, v \in Values :
              (AfterHit /\ Set(raw, v) /\ Evicted # {} /\ Len(cache) >= 2) =>
                  /\ HitKey \notin Evicted
                  /\ Evicted = {cache[1].key}
                  /\ cache[1].key # HitKey
                  /\ (max_size = 2 => Keys(cache') = {HitKey, generate_key(raw)}) ]_vars

\* set(A); set(B); get(A); set(C) on a store of two entries: A, hit once, is
\* kept with C, and B, used before the hit, is gone
C3_Witness ==
    /\ max_size = 2
    /\ ~expired
    /\ hits = 1
    /\ Len(mru) = 3
    /\ Len(cache) = 2
    /\ cache[1].key = mru[2]
    /\ cache[1].access_count = 1
    /\ cache[2].key = mru[3]
    /\ cache[2].access_count = 0

\* C4: a get of a stored key later than ttl_seconds after the last set of the
\* key returns None, counts one miss and removes the entry, so that get_stats
\* counts one entry less; a get no later than that returns the value set.
C4_TtlExpiry ==
    [][ \A raw \in RawKeys :
          LET k == generate_key(raw) IN
              (Get(raw) /\ k \in Keys(cache)) =>
                  LET e == Entry(cache, k) IN
                      IF now > e.set_at + ttl_seconds
                      THEN /\ ret'.val = None
                           /\ misses' = misses + 1
                           /\ hits' = hits
                           /\ k \notin Keys(cache')
                           /\ StatsOf(cache', max_size, hits', misses').entries
                                = StatsOf(cache, max_size, hits, misses).entries - 1
                      ELSE /\ ret'.val = e.set_value
                           /\ hits' = hits + 1
                           /\ misses' = misses ]_vars

\* an entry was hit and, later, found expired and removed
C4_Witness == expired /\ hits = 1 /\ misses = 1 /\ ret.val = None

\* two dict keys with the same field-value pairs, built in different orders
SameFields(r1, r2) ==
    /\ r1.kind = "dict"
    /\ r2.kind = "dict"
    /\ r1 # r2
    /\ Range(r1.fields) = Range(r2.fields)

\* the pairs of such keys, and the digest of each
OrderPairs == {p \in RawKeys \X RawKeys : SameFields(p[1], p[2])}

KeyOf == [r \in RawKeys |-> generate_key(r)]

\* C22: when a step has set a value under a dict key, a get under a dict key
\* with the same pairs in another order returns that value, and a set under
\* that other key replaces the entry: the store keeps its keys and its size.
C22_FieldOrderIndependent ==
    [][(max_size >= 1 /\ ret' = Returned(None) /\ now' = now) =>
           \A p \in OrderPairs, v \in Values :
               cache' = SetEffect(cache, max_size, KeyOf[p[1]], v, now) =>
                   LET got == GetEffect(cache', hits', misses', ttl_seconds, KeyOf[p[2]], now')
                   IN  /\ got.ret = v
                       /\ got.hits = hits' + 1
                       /\ \A v2 \in Values :
                              LET again == SetEffect(cache', max_size, KeyOf[p[2]], v2, now')
                              IN  /\ Len(again) = Len(cache')
                                  /\ Keys(again) = Keys(cache')
                                  /\ Entry(again, KeyOf[p[2]]).data = v2]_vars

\* a value set under a dict key was returned by a get, and a second set
\* under a key of the same pairs left one entry with the second value
C22_Witness ==
    \E r1 \in RawKeys, r2 \in RawKeys :
        /\ SameFields(r1, r2)
        /\ hits = 1
        /\ Len(cache) = 1
        /\ Keys(cache) = {generate_key(r2)}
        /\ mru = <<generate_key(r1)>>
        /\ cache[1].data = "v2"
        /\ cache[1].access_count = 0

(***************************************************************************)
(* The cache under concurrent callers.  Each thread runs get, set, clear   *)
(* and get_stats statement by statement; the body of each method is a      *)
(* `with self.lock` block.                                                 *)
(***************************************************************************)
ThreadKeys == {StrKey(<<"A">>), StrKey(<<"B">>)}

AcquireLabels == {"get_acquire", "set_acquire", "clear_acquire", "stats_acquire"}

\* a lock that lets every thread in
LockNeverHeld(t) == TRUE

\* threading.RLock: free, or held by the thread that asks
LockAvailable(t) == lock = NoThread \/ lock = t

Goto(t, label) == pc' = [pc EXCEPT ![t] = label]

\* get: cache_key = self._generate_key(key)
CallGet(t, raw) ==
    /\ pc[t] = "idle"
    /\ opsDone < MaxCalls
    /\ hits + misses < MaxCount
    /\ frame' = [frame EXCEPT ![t] = [op |-> "get", key |-> generate_key(raw)]]
    /\ Goto(t, "get_acquire")
    /\ UNCHANGED <<cacheVars, otherParts, lock, snap, opsDone>>

\* set: cache_key = ...; current_time = time.time(), both before the lock is taken
CallSet(t, raw, v) ==
    /\ pc[t] = "idle"
    /\ opsDone < MaxCalls
    /\ frame' = [frame EXCEPT ![t] =
                    [op |-> "set", key |-> generate_key(raw), value |-> v,
                     current_time |-> now]]
    /\ Goto(t, "set_acquire")
    /\ UNCHANGED <<cacheVars, otherParts, lock, snap, opsDone>>

CallClear(t) ==
    /\ pc[t] = "idle"
    /\ opsDone < MaxCalls
    /\ frame' = [frame EXCEPT ![t] = [op |-> "clear"]]
    /\ Goto(t, "clear_acquire")
    /\ UNCHANGED <<cacheVars, otherParts, lock, snap, opsDone>>

CallGetStats(t) ==
    /\ pc[t] = "idle"
    /\ opsDone < MaxCalls
    /\ frame' = [frame EXCEPT ![t] = [op |-> "get_stats"]]
    /\ Goto(t, "stats_acquire")
    /\ UNCHANGED <<cacheVars, otherParts, lock, snap, opsDone>>

\* with self.lock:
Acquire(t) ==
    /\ pc[t] \in AcquireLabels
    /\ LockAvailable(t)
    /\ lock' = t
    /\ snap' = [snap EXCEPT ![t] = [cache |-> cache, hits |-> hits, misses |-> misses]]
    /\ Goto(t, CASE pc[t] = "get_acquire" -> "get_lookup"
                 [] pc[t] = "set_acquire" -> "set_delete"
                 [] pc[t] = "clear_acquire" -> "clear_cache"
                 [] pc[t] = "stats_acquire" -> "stats_total")
    /\ UNCHANGED <<cacheVars, otherParts, frame, opsDone>>

\* if cache_key not in self.cache ... entry = self.cache[cache_key]; current_time = time.time()
GetLookup(t) ==
    /\ pc[t] = "get_lookup"
    /\ IF frame[t].key \notin Keys(cache)
       THEN /\ Goto(t, "get_miss")
            /\ frame' = [frame EXCEPT ![t] =
                            [op |-> "get", key |-> frame[t].key, current_time |-> now]]
       ELSE /\ Goto(t, "get_expiry")
            /\ frame' = [frame EXCEPT ![t] =
                            [op |-> "get", key |-> frame[t].key, current_time |-> now,
                             entry |-> Entry(cache, frame[t].key)]]
    /\ UNCHANGED <<cacheVars, otherParts, lock, snap, opsDone>>

\* if current_time - entry.timestamp > self.ttl_seconds: del self.cache[cache_key]
GetExpiry(t) ==
    /\ pc[t] = "get_expiry"
    /\ IF IsExpired(frame[t].entry, frame[t].current_time, ttl_seconds)
       THEN /\ cache' = DelKey(cache, frame[t].key)
            /\ Goto(t, "get_miss")
       ELSE /\ cache' = cache
            /\ Goto(t, "get_update")
    /\ UNCHANGED <<max_size, ttl_seconds, hits, misses, now, notThreads, lock, frame, snap,
                   opsDone>>

\* entry.access_count += 1; entry.last_accessed = current_time (on the stored object)
GetUpdate(t) ==
    LET f == frame[t]
        e2 == [f.entry EXCEPT !.access_count = @ + 1, !.last_accessed = f.current_time]
    IN  /\ pc[t] = "get_update"
        /\ cache' = [i \in 1..Len(cache) |-> IF cache[i] = f.entry THEN e2 ELSE cache[i]]
        /\ frame' = [frame EXCEPT ![t].entry = e2]
        /\ Goto(t, "get_move")
        /\ UNCHANGED <<max_size, ttl_seconds, hits, misses, now, notThreads, lock, snap,
                       opsDone>>

\* self.cache.move_to_end(cache_key)
GetMove(t) ==
    /\ pc[t] = "get_move"
    /\ cache' = MoveToEnd(cache, frame[t].key, frame[t].entry)
    /\ Goto(t, "get_hit")
    /\ UNCHANGED <<max_size, ttl_seconds, hits, misses, now, notThreads, lock, frame, snap,
                   opsDone>>

\* self.hits += 1; return entry.data
GetHit(t) ==
    /\ pc[t] = "get_hit"
    /\ hits' = hits + 1
    /\ frame' = [frame EXCEPT ![t] = [op |-> "get", key |-> frame[t].key,
                                      current_time |-> frame[t].current_time,
                                      ret |-> frame[t].entry.data]]
    /\ Goto(t, "release")
    /\ UNCHANGED <<max_size, ttl_seconds, cache, misses, now, notThreads, lock, snap,
                   opsDone>>

\* self.misses += 1; return None
GetMiss(t) ==
    /\ pc[t] = "get_miss"
    /\ misses' = misses + 1
    /\ frame' = [frame EXCEPT ![t] = [op |-> "get", key |-> frame[t].key,
                                      current_time |-> frame[t].current_time,
                                      ret |-> None]]
    /\ Goto(t, "release")
    /\ UNCHANGED <<max_size, ttl_seconds, cache, hits, now, notThreads, lock, snap,
                   opsDone>>

\* if cache_key in self.cache: del self.cache[cache_key]
SetDelete(t) ==
    /\ pc[t] = "set_delete"
    /\ cache' = DelKey(cache, frame[t].key)
    /\ Goto(t, "set_insert")
    /\ UNCHANGED <<max_size, ttl_seconds, hits, misses, now, notThreads, lock, frame, snap,
                   opsDone>>

\* self.cache[cache_key] = entry: a new key goes to the end, a stored key keeps its place
SetInsert(t) ==
    LET f == frame[t]
        entry == CacheEntry(f.key, f.value, f.current_time)
    IN  /\ pc[t] = "set_insert"
        /\ cache' = IF f.key \in Keys(cache)
                    THEN [cache EXCEPT ![IndexOf(cache, f.key)] = entry]
                    ELSE cache \o <<entry>>
        /\ Goto(t, "set_evict")
        /\ UNCHANGED <<max_size, ttl_seconds, hits, misses, now, notThreads, lock, frame,
                       snap, opsDone>>

\* while len(self.cache) > self.max_size: del the oldest entry
SetEvict(t) ==
    /\ pc[t] = "set_evict"
    /\ IF Len(cache) > max_size
       THEN /\ cache' = Tail(cache)
            /\ pc' = pc
       ELSE /\ cache' = cache
            /\ Goto(t, "release")
    /\ UNCHANGED <<max_size, ttl_seconds, hits, misses, now, notThreads, lock, frame, snap,
                   opsDone>>

\* self.cache.clear()
ClearCache(t) ==
    /\ pc[t] = "clear_cache"
    /\ cache' = <<>>
    /\ Goto(t, "clear_hits")
    /\ UNCHANGED <<max_size, ttl_seconds, hits, misses, now, notThreads, lock, frame, snap,
                   opsDone>>

\* self.hits = 0
ClearHits(t) ==
    /\ pc[t] = "clear_hits"
    /\ hits' = 0
    /\ Goto(t, "clear_misses")
    /\ UNCHANGED <<max_size, ttl_seconds, cache, misses, now, notThreads, lock, frame, snap,
                   opsDone>>

\* self.misses = 0
ClearMisses(t) ==
    /\ pc[t] = "clear_misses"
    /\ misses' = 0
    /\ Goto(t, "release")
    /\ UNCHANGED <<max_size, ttl_seconds, cache, hits, now, notThreads, lock, frame, snap,
                   opsDone>>

\* total_requests = self.hits + self.misses
StatsTotal(t) ==
    /\ pc[t] = "stats_total"
    /\ frame' = [frame EXCEPT ![t] = [op |-> "get_stats", total |-> hits + misses]]
    /\ Goto(t, "stats_build")
    /\ UNCHANGED <<cacheVars, otherParts, lock, snap, opsDone>>

\* return {'entries': len(self.cache), ..., 'total_requests': total_requests}
StatsBuild(t) ==
    /\ pc[t] = "stats_build"
    /\ frame' = [frame EXCEPT ![t] =
                    [op |-> "get_stats",
                     ret |-> [entries |-> Len(cache), max_size |-> max_size,
                              hits |-> hits, misses |-> misses,
                              total_requests |-> frame[t].total]]]
    /\ Goto(t, "release")
    /\ UNCHANGED <<cacheVars, otherParts, lock, snap, opsDone>>

\* the end of the with block: the lock is released and the method returns
Release(t) ==
    /\ pc[t] = "release"
    /\ lock' = NoThread
    /\ Goto(t, "idle")
    /\ opsDone' = opsDone + 1
    /\ UNCHANGED <<cacheVars, otherParts, frame, snap>>

ThreadTick ==
    /\ now < MaxTime
    /\ now' = now + 1
    /\ UNCHANGED <<max_size, ttl_seconds, cache, hits, misses, notThreads, threadVars>>

ThreadsInit ==
    /\ ExtractIdle
    /\ DiskIdle
    /\ ThreadsIdle
    /\ ChunkerIdle
    /\ EmbedIdle
    /\ AttrIdle
    /\ max_size \in 0..MaxSizeBound
    /\ ttl_seconds \in 0..MaxTtl
    /\ cache = <<>>
    /\ hits = 0
    /\ misses = 0
    /\ now = 0
    /\ ret = Returned(None)
    /\ mru = <<>>
    /\ expired = FALSE

ThreadsNext ==
    \/ \E t \in Threads, raw \in ThreadKeys : CallGet(t, raw)
    \/ \E t \in Threads, raw \in ThreadKeys, v \in Values : CallSet(t, raw, v)
    \/ \E t \in Threads : CallClear(t)
    \/ \E t \in Threads : CallGetStats(t)
    \/ \E t \in Threads : Acquire(t)
    \/ \E t \in Threads : GetLookup(t)
    \/ \E t \in Threads : GetExpiry(t)
    \/ \E t \in Threads : GetUpdate(t)
    \/ \E t \in Threads : GetMove(t)
    \/ \E t \in Threads : GetHit(t)
    \/ \E t \in Threads : GetMiss(t)
    \/ \E t \in Threads : SetDelete(t)
    \/ \E t \in Threads : SetInsert(t)
    \/ \E t \in Threads : SetEvict(t)
    \/ \E t \in Threads : ClearCache(t)
    \/ \E t \in Threads : ClearHits(t)
    \/ \E t \in Threads : ClearMisses(t)
    \/ \E t \in Threads : StatsTotal(t)
    \/ \E t \in Threads : StatsBuild(t)
    \/ \E t \in Threads : Release(t)
    \/ ThreadTick

ThreadsSpec == ThreadsInit /\ [][ThreadsNext]_vars

\* what a call leaves behind when it runs alone on the store it found
Alone(t) ==
    LET f == frame[t]
        s == snap[t]
    IN  CASE f.op = "get" ->
                 LET r == GetEffect(s.cache, s.hits, s.misses, ttl_seconds, f.key,
                                    f.current_time)
                 IN  [cache |-> r.cache, hits |-> r.hits, misses |-> r.misses,
                      ret |-> r.ret]
          [] f.op = "set" ->
                 [cache |-> SetEffect(s.cache, max_size, f.key, f.value, f.current_time),
                  hits |-> s.hits, misses |-> s.misses, ret |-> None]
          [] f.op = "clear" ->
                 [cache |-> <<>>, hits |-> 0, misses |-> 0, ret |-> None]
          [] f.op = "get_stats" ->
                 [cache |-> s.cache, hits |-> s.hits, misses |-> s.misses,
                  ret |-> StatsOf(s.cache, max_size, s.hits, s.misses)]

Returns(t) == IF frame[t].op \in {"get", "get_stats"} THEN frame[t].ret ELSE None

InLock(t) == pc[t] \notin AcquireLabels \cup {"idle"}

\* C5: the calls are serialized by the lock.  At most one thread is inside a
\* with block; the store changes only by a step of the thread that holds the
\* lock; when a call returns, the store and the value returned are those of the
\* call run alone on the store it found when it got the lock (so no set is
\* lost, the order is that of a sequential run and a get has added exactly one
\* hit or one miss); and whenever no thread holds the lock the store holds at
\* most max_size entries.
C5_Serialized ==
    /\ lock = NoThread
    /\ [][ /\ \A t, u \in Threads : (InLock(t)' /\ InLock(u)') => t = u
           /\ <<cache, hits, misses>>' # <<cache, hits, misses>> =>
                  /\ lock # NoThread
                  /\ InLock(lock)
                  /\ \A u \in Threads \ {lock} : pc'[u] = pc[u] /\ frame'[u] = frame[u]
           /\ \A t \in Threads :
                  Release(t) =>
                      /\ cache' = Alone(t).cache
                      /\ hits' = Alone(t).hits
                      /\ misses' = Alone(t).misses
                      /\ Returns(t) = Alone(t).ret
           /\ lock' = NoThread => Len(cache') <= max_size ]_vars

\* one thread is in the middle of a set, the store over its capacity, while
\* the other waits for the lock
C5_Witness ==
    \E t, u \in Threads :
        /\ t # u
        /\ lock = t
        /\ pc[t] = "set_evict"
        /\ Len(cache) > max_size
        /\ pc[u] \in AcquireLabels

(***************************************************************************)
(* The semantic chunker.  A document text is the sequence of sentences     *)
(* re.split(r'(?<=[.!?])\s+', text) cuts it into, one whitespace character *)
(* between two sentences.  A sentence has a length; it ends with '.' or    *)
(* with another terminator (any character, for the last one); it holds a   *)
(* paragraph break '\n\n' at offset ParaOffset or none; and it names a set *)
(* of medical concepts.                                                    *)
(***************************************************************************)
SentenceLens == {40, 120}

ParaOffset == 10

ConceptSets == {{}, {"heart"}}

Sentences == [len : SentenceLens, dot : BOOLEAN, para : BOOLEAN, concepts : ConceptSets]

\* a sentence longer than a chunk of 1000 characters, without paragraph break
LongSentences == [len : {1150}, dot : BOOLEAN, para : {FALSE}, concepts : ConceptSets]

\* the texts of short sentences, and those with a long sentence in front
Texts ==
    UNION {[1..n -> Sentences] : n \in 1..MaxSentences}
    \cup {<<long>> \o tx : long \in LongSentences,
                           tx \in UNION {[1..n -> Sentences] : n \in 1..(MaxSentences - 1)}}

ChunkSizes == {100, 150, 1200}

OverlapPcts == {0, 10, 60}

RECURSIVE SumLens(_)
SumLens(tx) == IF tx = <<>> THEN 0 ELSE tx[1].len + SumLens(Tail(tx))

\* len(text)
TextLength(tx) == IF tx = <<>> THEN 0 ELSE SumLens(tx) + Len(tx) - 1

\* the offset at which sentence j starts
SentenceStart(tx, j) == SumLens(SubSeq(tx, 1, j - 1)) + (j - 1)

\* the offsets q with text[q:q+2] = '. '
DotSpaces(tx) ==
    {SentenceStart(tx, j) + tx[j].len - 1 : j \in {k \in 1..(Len(tx) - 1) : tx[k].dot}}

SetMax(S) == CHOOSE x \in S : \A y \in S : y <= x

\* sorted(set(...))
RECURSIVE SortSet(_)
SortSet(S) ==
    IF S = {} THEN <<>>
    ELSE LET m == CHOOSE x \in S : \A y \in S : x <= y IN <<m>> \o SortSet(S \ {m})

\* MedicalConceptDetector.is_medical_boundary on the concepts of two sentences
is_medical_boundary(before, after) ==
    IF before = {} /\ after = {} THEN FALSE
    ELSE LET overlap == Cardinality(before \cap after)
             total == Cardinality(before \cup after)
         IN  IF total = 0 THEN FALSE ELSE 2 * overlap < total

\* SemanticChunker.find_semantic_boundaries: current_pos runs over the sentences
find_semantic_boundaries(tx) ==
    SortSet(
        {SentenceStart(tx, j) + ParaOffset : j \in {k \in 1..Len(tx) : tx[k].para}}
        \cup
        {SentenceStart(tx, j) :
            j \in {k \in 2..Len(tx) : is_medical_boundary(tx[k - 1].concepts, tx[k].concepts)}})

\* self.overlap_size = int(chunk_size * overlap_ratio)
overlap_size == (chunk_size * overlap_pct) \div 100

\* best_boundary = None, next_boundary_idx = None
NoBoundary == -1

\* the first boundary b with chunk_start < b <= chunk_end, or None
NearestBoundary(ab, chunk_start, chunk_end) ==
    LET inside == {b \in Range(ab) : chunk_start < b /\ b <= chunk_end}
    IN  IF inside = {} THEN NoBoundary ELSE CHOOSE b \in inside : \A c \in inside : b <= c

\* the last boundary b with chunk_start < b <= chunk_end, or None
BestBoundary(ab, chunk_start, chunk_end) ==
    LET inside == {b \in Range(ab) : chunk_start < b /\ b <= chunk_end}
    IN  IF inside = {} THEN NoBoundary ELSE SetMax(inside)

\* text[chunk_start:chunk_end].rfind('. ')
RFindDotSpace(tx, chunk_start, chunk_end) ==
    LET stop == Min(chunk_end, TextLength(tx))
        found == {q \in DotSpaces(tx) : chunk_start <= q /\ q + 2 <= stop}
    IN  IF found = {} THEN -1 ELSE SetMax(found) - chunk_start

\* last_sentence > self.chunk_size * 0.7
PastSeventyPercent(last_sentence, size) == 10 * last_sentence > 7 * size

\* a chunk that always ends chunk_size after its start
ChunkEndAtTarget(tx, ab, chunk_start, size) == chunk_start + size

\* the end of the chunk that starts at chunk_start
ChunkEnd(tx, ab, chunk_start, size) ==
    LET best_boundary == BestBoundary(ab, chunk_start, chunk_start + size)
        last_sentence == RFindDotSpace(tx, chunk_start, chunk_start + size)
        chunk_end == IF best_boundary # NoBoundary THEN best_boundary
                     ELSE IF PastSeventyPercent(last_sentence, size)
                          THEN chunk_start + last_sentence + 2
                          ELSE chunk_start + size
    IN  Min(chunk_end, TextLength(tx))

\* next_boundary_idx - 1 for the first boundary after next_start (indices from 0),
\* None if there is no such boundary
NextIndex(ab, next_start) ==
    LET later == {j \in 1..Len(ab) : ab[j] > next_start}
        next_boundary_idx == (CHOOSE j \in later : \A k \in later : j <= k) - 1
    IN  IF later = {} THEN NoBoundary
        ELSE IF next_boundary_idx > 0 THEN next_boundary_idx - 1 ELSE 0

\* next_start = max(chunk_end - self.overlap_size, chunk_start + 1)
NextStart(chunk_start, chunk_end, ov) == Max(chunk_end - ov, chunk_start + 1)

\* the chunk dictionary; its text is the slice text[chunk_start:chunk_end],
\* kept as the offsets at which the slice starts and ends, size its length
Chunk(tx, chunk_start, chunk_end, ov) ==
    [start_idx |-> chunk_start,
     end_idx |-> chunk_end,
     text |-> <<Min(chunk_start, TextLength(tx)), Min(chunk_end, TextLength(tx))>>,
     size |-> Min(chunk_end, TextLength(tx)) - Min(chunk_start, TextLength(tx)),
     overlap_previous |-> (chunk_start > 0 /\ chunk_start < chunk_start + ov),
     overlap_next |-> (chunk_end < TextLength(tx))]

\* a minimum of 100 characters whatever the chunk size
BelowHundred(size, csize) == size < 100

\* min_chunk_size = max(100, self.chunk_size * 0.1)
BelowMinChunkSize(size, csize) == size < 100 \/ 10 * size < csize

ChunkerInit ==
    /\ ExtractIdle
    /\ DiskIdle
    /\ CacheIdle
    /\ ThreadsIdle
    /\ EmbedIdle
    /\ AttrIdle
    /\ text \in Texts
    /\ chunk_size \in ChunkSizes
    /\ overlap_pct \in OverlapPcts
    /\ all_boundaries = <<>>
    /\ loop_i = 0
    /\ chunks = <<>>
    /\ returned = <<>>
    /\ cpc = "call"

\* chunk_text up to the loop of create_overlapping_chunks
ChunkTextCall ==
    /\ cpc = "call"
    /\ IF TextLength(text) < 50
       THEN /\ cpc' = "done"
            /\ all_boundaries' = all_boundaries
       ELSE /\ cpc' = "loop"
            /\ all_boundaries' =
                   SortSet({0} \cup Range(find_semantic_boundaries(text))
                               \cup {TextLength(text)})
    /\ UNCHANGED <<text, chunk_size, overlap_pct, loop_i, chunks, returned, notChunker>>

\* one pass of the while loop of create_overlapping_chunks
ChunkLoop ==
    /\ cpc = "loop"
    /\ Len(chunks) < MaxChunks
    /\ IF ~(loop_i < Len(all_boundaries) - 1)
       THEN /\ cpc' = "filter"
            /\ UNCHANGED <<loop_i, chunks>>
       ELSE LET chunk_start == all_boundaries[loop_i + 1]
                chunk_end == ChunkEnd(text, all_boundaries, chunk_start, chunk_size)
                next_start == NextStart(chunk_start, chunk_end, overlap_size)
                next_i == NextIndex(all_boundaries, next_start)
            IN  IF chunk_start >= chunk_end
                THEN /\ cpc' = "filter"
                     /\ UNCHANGED <<loop_i, chunks>>
                ELSE /\ chunks' = Append(chunks,
                                         Chunk(text, chunk_start, chunk_end, overlap_size))
                     /\ IF chunk_end >= TextLength(text) \/ next_i = NoBoundary
                        THEN cpc' = "filter" /\ loop_i' = loop_i
                        ELSE cpc' = "loop" /\ loop_i' = next_i
    /\ UNCHANGED <<text, chunk_size, overlap_pct, all_boundaries, returned, notChunker>>

\* chunk_text: the chunks under min_chunk_size are filtered out
ChunkFilter ==
    /\ cpc = "filter"
    /\ returned' = SelectSeq(chunks, LAMBDA c : ~BelowMinChunkSize(c.size, chunk_size))
    /\ cpc' = "done"
    /\ UNCHANGED <<text, chunk_size, overlap_pct, all_boundaries, loop_i, chunks, notChunker>>

ChunkerNext ==
    \/ ChunkTextCall
    \/ ChunkLoop
    \/ ChunkFilter

ChunkerSpec == ChunkerInit /\ [][ChunkerNext]_vars

(***************************************************************************)
(* Properties of the semantic chunker                                      *)
(***************************************************************************)
\* C6: create_overlapping_chunks makes strict forward progress: each chunk
\* starts strictly after the chunk produced before it (so that the loop ends
\* once the starts have run through the text), also for a text longer than
\* chunk_size with no boundary and no '. ', which is cut at chunk_size.
C6_ForwardProgress ==
    \A j \in 1..(Len(chunks) - 1) : chunks[j].start_idx < chunks[j + 1].start_idx

\* C7: two consecutive chunks of one document share at most overlap_size
\* characters (the end of the first minus the start of the second).
C7_OverlapBound ==
    \A j \in 1..(Len(chunks) - 1) :
        chunks[j].end_idx - chunks[j + 1].start_idx <= overlap_size

\* the spans of the chunks of cs cover [0, n)
Covers(cs, n) ==
    /\ cs # <<>>
    /\ cs[1].start_idx = 0
    /\ \A j \in 1..(Len(cs) - 1) : cs[j + 1].start_idx <= cs[j].end_idx
    /\ cs[Len(cs)].end_idx = n

\* C8: for a text of at least 50 characters the chunks chunk_text returns
\* cover [0, len(text)): the first starts at 0, each later one starts at or
\* before the end of the one before it, the last ends at len(text).
C8_ReturnedCover ==
    (cpc = "done" /\ TextLength(text) >= 50) => Covers(returned, TextLength(text))

\* C23: every chunk create_overlapping_chunks produces has
\* 0 <= start_idx < end_idx <= len(text), its text is text[start_idx:end_idx]
\* and its size is end_idx - start_idx.
C23_ChunkOffsets ==
    \A j \in 1..Len(chunks) :
        /\ 0 <= chunks[j].start_idx
        /\ chunks[j].start_idx < chunks[j].end_idx
        /\ chunks[j].end_idx <= TextLength(text)
        /\ chunks[j].text = <<chunks[j].start_idx, chunks[j].end_idx>>
        /\ chunks[j].size = chunks[j].end_idx - chunks[j].start_idx

\* the loop has produced several chunks, one shorter than chunk_size, the
\* last one ending at the end of the text
C23_Witness ==
    /\ cpc = "done"
    /\ Len(chunks) >= 3
    /\ chunks[Len(chunks)].end_idx = TextLength(text)
    /\ chunks[Len(chunks)].start_idx > 0
    /\ \E j \in 1..Len(chunks) : chunks[j].size < chunk_size

\* C24: chunk_text returns no chunk of fewer than max(100, 10% of chunk_size)
\* characters, and returns no chunk at all for a text of fewer than 50
\* characters.
C24_MinimumChunkSize ==
    cpc = "done" =>
        /\ \A j \in 1..Len(returned) :
               /\ returned[j].size >= 100
               /\ 10 * returned[j].size >= chunk_size
        /\ TextLength(text) < 50 => returned = <<>>

\* with a chunk size of 1200 a chunk of 100 to 119 characters was produced
\* and is not among the chunks returned
C24_Witness ==
    /\ cpc = "done"
    /\ chunk_size = 1200
    /\ returned # <<>>
    /\ \E j \in 1..Len(chunks) :
           /\ chunks[j].size >= 100
           /\ chunks[j].size < 120
           /\ \A k \in 1..Len(returned) : returned[k] # chunks[j]

\* the candidate boundaries in (s, s + chunk_size]
Window(s) == {b \in Range(all_boundaries) : s < b /\ b <= s + chunk_size}

\* the offsets of the '. ' that lie whole in text[s : s + chunk_size]
DotsIn(s) == {q \in DotSpaces(text) : s <= q /\ q + 2 <= s + chunk_size}

\* C26: a chunk that starts at s ends at the boundary of (s, s + chunk_size]
\* closest to s + chunk_size if the window holds a candidate boundary;
\* otherwise just after the last '. ' of text[s : s + chunk_size] if that
\* lies past 70% of chunk_size; otherwise at s + chunk_size.
C26_EndSelection ==
    \A j \in 1..Len(chunks) :
        LET s == chunks[j].start_idx
            e == chunks[j].end_idx
        IN  IF Window(s) # {}
            THEN e \in Window(s) /\ \A b \in Window(s) : b <= e
            ELSE IF DotsIn(s) # {} /\ 10 * (SetMax(DotsIn(s)) - s) > 7 * chunk_size
                 THEN e = SetMax(DotsIn(s)) + 2
                 ELSE e = s + chunk_size

\* one chunk ended at the last of several boundaries of its window and one,
\* with no boundary in its window, just after a '. '
C26_Witness ==
    /\ \E j \in 1..Len(chunks) :
           /\ Cardinality(Window(chunks[j].start_idx)) >= 2
           /\ chunks[j].end_idx = SetMax(Window(chunks[j].start_idx))
    /\ \E j \in 1..Len(chunks) :
           /\ Window(chunks[j].start_idx) = {}
           /\ chunks[j].end_idx < chunks[j].start_idx + chunk_size

\* C27: the overlap_size used to place the next chunk is chunk_size times the
\* overlap ratio capped at 0.5: after a chunk from s to e the loop goes on
\* from the boundary before the first one above max(e - overlap_size, s + 1)
\* for that capped overlap_size.
C27_OverlapCapped ==
    [][(cpc = "loop" /\ cpc' = "loop" /\ Len(chunks') = Len(chunks) + 1) =>
           LET made == chunks'[Len(chunks')]
               capped == (chunk_size * Min(overlap_pct, 50)) \div 100
           IN  loop_i' = NextIndex(all_boundaries,
                                   NextStart(made.start_idx, made.end_idx, capped))]_vars

(***************************************************************************)
(* Batch embedding: EmbeddingsService.generate_embeddings (one text after  *)
(* the other) and AsyncEmbeddingsService.generate_batch_embeddings (the    *)
(* texts of a batch at once).  A text is the sequence of its first 1000    *)
(* characters (head, a few tokens here) and whether more follow (tail).    *)
(* A token Surrogate is a character str.encode() refuses, so that hashing  *)
(* a key that holds it raises.                                             *)
(***************************************************************************)
Surrogate == "\\ud800"

Heads == {<<"a">>, <<"b">>, <<Surrogate>>, <<"query", ":", "a">>}

EmbedTexts == [head : Heads, tail : {FALSE}] \cup {[head |-> <<"a">>, tail |-> TRUE]}

TaskTypes == {"retrieval_document", "retrieval_query"}

\* settings.batch_size
DefaultBatchSize == 10

\* text[:1000]
Truncate(t) == t.head

\* cache_key = f"{task_type}:{text_content}"
AsyncKey(tt, text_content) == <<tt, ":">> \o text_content

\* generate_embeddings looks the truncated text itself up
SyncKey(text_content) == text_content

\* the whole text: search_documents does not truncate the query
FullText(t) == IF t.tail THEN Append(t.head, "more") ELSE t.head

\* search_documents looks f"query:{query}" up
QueryKey(query) == <<"query", ":">> \o query

EmbedKey(mode, tt, t) ==
    CASE mode = "async" -> AsyncKey(tt, Truncate(t))
      [] mode = "search" -> QueryKey(FullText(t))
      [] OTHER -> SyncKey(Truncate(t))

\* hashlib.md5(key_str.encode()) raises UnicodeEncodeError
Unencodable(key) == Surrogate \in Range(key)

\* the number of components of a vector of the embedding model
EmbeddingDim == 768

\* what a task or a lookup yields: an embedding, the zero vector, None or an exception
Embedding(text_content, tt) ==
    [kind |-> "embedding", content |-> text_content, task_type |-> tt, dim |-> EmbeddingDim]

\* an embedding an earlier run of the service stored
OlderEmbedding(text_content, tt) ==
    [kind |-> "older", content |-> text_content, task_type |-> tt, dim |-> EmbeddingDim]

\* [0.0] * 768
ZeroVector == [kind |-> "zeros", content |-> <<>>, task_type |-> "", dim |-> 768]

NoEmbedding == [kind |-> "None", content |-> <<>>, task_type |-> "", dim |-> 0]

Raised == [kind |-> "Exception", content |-> <<>>, task_type |-> "", dim |-> 0]

\* EmbeddingCache.get_embedding
get_embedding(c, key) ==
    IF \E e \in c : e.key = key
    THEN (CHOOSE e \in c : e.key = key).embedding
    ELSE NoEmbedding

\* the embedding is not stored
set_embedding_skipped(c, key, embedding) == c

\* EmbeddingCache.set_embedding
set_embedding(c, key, embedding) ==
    {e \in c : e.key # key} \cup {[key |-> key, embedding |-> embedding]}

\* the fallback vector is stored under the key of the failed request
on_provider_error_cached(c, key) == set_embedding(c, key, ZeroVector)

\* the except clause around the provider call: the cache is not written
on_provider_error(c, key) == c

\* batch_size = batch_size or self.batch_size
EffectiveBatchSize == IF batch_size = 0 THEN DefaultBatchSize ELSE batch_size

\* the positions (from 1) of the batch that starts at batch_i
BatchPositions == (batch_i + 1)..Min(batch_i + EffectiveBatchSize, Len(texts))

\* a task: where it stands, what it returns, and as history whether it
\* invoked the provider and after how many pacing delays
NewTask == [state |-> "new", result |-> NoEmbedding, provider |-> "not called", slept |-> 0]

\* a result is appended as the task gave it
OrAsReturned(result) == result

\* a result that is an exception or None becomes [0.0] * 768
OrZeroVector(result) ==
    IF result.kind \in {"Exception", "None"} THEN ZeroVector ELSE result

\* the results of a batch in the order in which its tasks finished
BatchResultsAsCompleted(ts, positions, order) ==
    LET mine == SelectSeq(order, LAMBDA k : k \in positions)
    IN  [n \in 1..Len(mine) |-> OrZeroVector(ts[mine[n]].result)]

\* asyncio.gather: the results of a batch in the order of its tasks
BatchResults(ts, positions, order) ==
    LET first == IF positions = {} THEN 1 ELSE CHOOSE k \in positions : \A m \in positions : k <= m
    IN  [n \in 1..Cardinality(positions) |-> OrZeroVector(ts[first + n - 1].result)]

\* what an earlier request for the text "a" left in the cache: each of the
\* three operations stores under its own key the vector of its own purpose
StoredEarlier ==
    LET t == [head |-> <<"a">>, tail |-> FALSE]
    IN  {[key |-> EmbedKey("async", tt, t), embedding |-> OlderEmbedding(<<"a">>, tt)] :
             tt \in TaskTypes}
        \cup {[key |-> EmbedKey("sync", "retrieval_document", t),
                embedding |-> OlderEmbedding(<<"a">>, "retrieval_document")],
               [key |-> EmbedKey("search", "retrieval_query", t),
                embedding |-> OlderEmbedding(<<"a">>, "retrieval_query")]}

EmbedInit ==
    /\ ExtractIdle
    /\ DiskIdle
    /\ CacheIdle
    /\ ThreadsIdle
    /\ ChunkerIdle
    /\ AttrIdle
    /\ emode \in {"sync", "async", "search"}
    /\ texts \in (IF emode = "search" THEN [1..1 -> EmbedTexts]
                  ELSE UNION {[1..n -> EmbedTexts] : n \in 0..MaxTexts})
    /\ task_type \in (CASE emode = "sync" -> {"retrieval_document"}
                        [] emode = "search" -> {"retrieval_query"}
                        [] OTHER -> TaskTypes)
    /\ batch_size \in (IF emode = "search" THEN {0} ELSE 0..MaxBatch)
    /\ ecache \in {{}} \cup {{e} : e \in StoredEarlier}
    /\ precached = ecache
    /\ tasks = <<>>
    /\ completed = <<>>
    /\ batch_i = 0
    /\ batch_embeddings = <<>>
    /\ all_embeddings = <<>>
    /\ pauses = 0
    /\ epc = "call"

\* generate_batch_embeddings up to its loop: one coroutine per text
AsyncCall ==
    /\ emode = "async"
    /\ epc = "call"
    /\ tasks' = [k \in 1..Len(texts) |-> NewTask]
    /\ epc' = IF Len(texts) = 0 THEN "done" ELSE "gather"
    /\ UNCHANGED <<emode, texts, task_type, batch_size, ecache, precached, completed,
                   batch_i, batch_embeddings, all_embeddings, pauses, notEmbed>>

\* generate_single_embedding up to its await: the cache is looked up
StartTask(t) ==
    LET cache_key == AsyncKey(task_type, Truncate(t))
        cached_embedding == get_embedding(ecache, cache_key)
    IN  IF Unencodable(cache_key) THEN [NewTask EXCEPT !.state = "done", !.result = Raised]
        ELSE IF cached_embedding # NoEmbedding
             THEN [NewTask EXCEPT !.state = "done", !.result = cached_embedding]
             ELSE [NewTask EXCEPT !.state = "running", !.provider = "called", !.slept = pauses]

\* asyncio.gather(*batch_tasks): the event loop runs every task of the batch
\* up to its first await, in the order of the tasks
AsyncGather ==
    /\ emode = "async"
    /\ epc = "gather"
    /\ tasks' = [k \in 1..Len(tasks) |->
                    IF k \in BatchPositions THEN StartTask(texts[k]) ELSE tasks[k]]
    /\ completed' = completed \o
                    SelectSeq([k \in 1..Len(tasks) |-> k],
                              LAMBDA k : k \in BatchPositions /\ tasks'[k].state = "done")
    /\ epc' = "wait"
    /\ UNCHANGED <<emode, texts, task_type, batch_size, ecache, precached,
                   batch_i, batch_embeddings, all_embeddings, pauses, notEmbed>>

\* the provider call of task k ends and the task goes on to its return
ProviderReturn(k, ok) ==
    /\ emode = "async"
    /\ epc = "wait"
    /\ k \in 1..Len(tasks)
    /\ tasks[k].state = "running"
    /\ LET text_content == Truncate(texts[k])
           embedding == Embedding(text_content, task_type)
       IN  IF ok
           THEN /\ ecache' = set_embedding(ecache, AsyncKey(task_type, text_content), embedding)
                /\ tasks' = [tasks EXCEPT ![k].state = "done", ![k].result = embedding,
                                          ![k].provider = "ok"]
           ELSE /\ ecache' = on_provider_error(ecache, AsyncKey(task_type, text_content))
                /\ tasks' = [tasks EXCEPT ![k].state = "done", ![k].result = NoEmbedding,
                                          ![k].provider = "failed"]
    /\ completed' = Append(completed, k)
    /\ UNCHANGED <<emode, texts, task_type, batch_size, precached,
                   batch_i, batch_embeddings, all_embeddings, epc, pauses, notEmbed>>

\* gather returns: the results of the batch are appended to all_embeddings
AsyncCollect ==
    /\ emode = "async"
    /\ epc = "wait"
    /\ \A k \in BatchPositions : tasks[k].state = "done"
    /\ all_embeddings' = all_embeddings \o BatchResults(tasks, BatchPositions, completed)
    /\ epc' = IF batch_i + EffectiveBatchSize < Len(tasks) THEN "sleep" ELSE "done"
    /\ UNCHANGED <<emode, texts, task_type, batch_size, ecache, precached, tasks, completed,
                   batch_i, batch_embeddings, pauses, notEmbed>>

\* await asyncio.sleep(0.1), then the next batch
AsyncSleep ==
    /\ emode = "async"
    /\ epc = "sleep"
    /\ batch_i' = batch_i + EffectiveBatchSize
    /\ pauses' = pauses + 1
    /\ epc' = "gather"
    /\ UNCHANGED <<emode, texts, task_type, batch_size, ecache, precached, tasks, completed,
                   batch_embeddings, all_embeddings, notEmbed>>

\* generate_embeddings up to its loops
SyncCall ==
    /\ emode = "sync"
    /\ epc = "call"
    /\ tasks' = [k \in 1..Len(texts) |-> NewTask]
    /\ epc' = IF Len(texts) = 0 THEN "done" ELSE "loop"
    /\ UNCHANGED <<emode, texts, task_type, batch_size, ecache, precached, completed,
                   batch_i, batch_embeddings, all_embeddings, pauses, notEmbed>>

\* generate_embeddings: one pass of the inner loop, for the text at j of the
\* batch; the pass that ends a batch extends all_embeddings
SyncText(ok) ==
    /\ emode = "sync"
    /\ epc = "loop"
    /\ LET k == batch_i + Len(batch_embeddings) + 1
           text_content == Truncate(texts[k])
           key == SyncKey(text_content)
           cached_embedding == get_embedding(ecache, key)
           embedding == Embedding(text_content, "retrieval_document")
           result == IF Unencodable(key) THEN Raised
                     ELSE IF cached_embedding # NoEmbedding THEN cached_embedding
                     ELSE IF ok THEN embedding ELSE Raised
           appended == Append(batch_embeddings,
                              IF result = Raised THEN ZeroVector ELSE result)
       IN  /\ (Unencodable(key) \/ cached_embedding # NoEmbedding) => ok
           /\ ecache' = IF result = embedding THEN set_embedding(ecache, key, embedding)
                        ELSE IF ~Unencodable(key) /\ cached_embedding = NoEmbedding
                             THEN on_provider_error(ecache, key)
                             ELSE ecache
           /\ tasks' = [tasks EXCEPT ![k] =
                            [state |-> "done", result |-> result, slept |-> pauses,
                             provider |-> IF Unencodable(key) \/ cached_embedding # NoEmbedding
                                          THEN "not called"
                                          ELSE IF ok THEN "ok" ELSE "failed"]]
           /\ completed' = Append(completed, k)
           /\ IF k = Min(batch_i + EffectiveBatchSize, Len(texts))
              THEN /\ all_embeddings' = all_embeddings \o appended
                   /\ batch_embeddings' = <<>>
                   /\ batch_i' = batch_i + EffectiveBatchSize
                   /\ epc' = IF batch_i' < Len(texts) THEN "loop" ELSE "done"
              ELSE /\ batch_embeddings' = appended
                   /\ UNCHANGED <<all_embeddings, batch_i, epc>>
    /\ UNCHANGED <<emode, texts, task_type, batch_size, precached, pauses, notEmbed>>

\* search_documents up to its query of the collection: the embedding of the query
SearchDocuments(ok) ==
    /\ emode = "search"
    /\ epc = "call"
    /\ LET query == FullText(texts[1])
           key == QueryKey(query)
           cached_embedding == get_embedding(ecache, key)
           embedding == Embedding(query, "retrieval_query")
           query_embedding == IF Unencodable(key) THEN Raised
                              ELSE IF cached_embedding # NoEmbedding THEN cached_embedding
                              ELSE IF ok THEN embedding ELSE Raised
       IN  /\ (Unencodable(key) \/ cached_embedding # NoEmbedding) => ok
           /\ ecache' = IF query_embedding = embedding
                        THEN set_embedding(ecache, key, embedding)
                        ELSE IF ~Unencodable(key) /\ cached_embedding = NoEmbedding
                             THEN on_provider_error(ecache, key)
                             ELSE ecache
           /\ tasks' = <<[state |-> "done", result |-> query_embedding, slept |-> pauses,
                          provider |-> IF Unencodable(key) \/ cached_embedding # NoEmbedding
                                       THEN "not called"
                                       ELSE IF ok THEN "ok" ELSE "failed"]>>
           /\ completed' = <<1>>
    /\ epc' = "searched"
    /\ UNCHANGED <<emode, texts, task_type, batch_size, precached,
                   batch_i, batch_embeddings, all_embeddings, pauses, notEmbed>>

EmbedNext ==
    \/ AsyncCall
    \/ AsyncGather
    \/ \E k \in 1..MaxTexts, ok \in BOOLEAN : ProviderReturn(k, ok)
    \/ AsyncCollect
    \/ AsyncSleep
    \/ SyncCall
    \/ \E ok \in BOOLEAN : SyncText(ok)
    \/ \E ok \in BOOLEAN : SearchDocuments(ok)

EmbedSpec == EmbedInit /\ [][EmbedNext]_vars

(***************************************************************************)
(* Properties of batch embedding                                           *)
(***************************************************************************)
\* the vectors a request for text t may be answered with
VectorsFor(t) ==
    {ZeroVector, Embedding(Truncate(t), task_type)}
    \cup {e.embedding : e \in {p \in precached : p.key = EmbedKey(emode, task_type, t)}}

\* C9: the batch embedding operation returns len(texts) vectors, the i-th of
\* them the one of the i-th text (cached, generated, or the zero vector if
\* its task failed), whatever the batch size and the order in which the
\* provider calls end.
C9_PositionalResults ==
    epc = "done" =>
        /\ Len(all_embeddings) = Len(texts)
        /\ \A k \in 1..Len(texts) :
               /\ all_embeddings[k] = OrZeroVector(tasks[k].result)
               /\ all_embeddings[k] \in VectorsFor(texts[k])

\* two tasks of one batch ended in the other order and with different vectors
C9_Witness ==
    /\ epc = "done"
    /\ emode = "async"
    /\ \E m, n \in 1..Len(completed) :
           /\ m < n
           /\ completed[m] > completed[n]
           /\ completed[m] - completed[n] < EffectiveBatchSize
           /\ all_embeddings[completed[m]] # all_embeddings[completed[n]]
           /\ all_embeddings[completed[n]] # ZeroVector

\* the cache key of the request for the text at position k
KeyAt(k) == EmbedKey(emode, task_type, texts[k])

\* the vectors a lookup of the text at k can find: stored before the call, or
\* generated for the same key earlier in the call
CachedFor(k) ==
    {e.embedding : e \in {p \in precached : p.key = KeyAt(k)}}
    \cup {tasks[m].result : m \in {n \in 1..Len(tasks) : /\ n # k
                                                        /\ tasks[n].provider = "ok"
                                                        /\ KeyAt(n) = KeyAt(k)}}

\* C14: when the provider fails for a text, the returned list holds a zero
\* vector of 768 components at that text's position, and every other text of
\* the call still has its own vector there: the generated one if the provider
\* answered for it, the cached one if its lookup was a hit.
C14_FailureIsolated ==
    epc = "done" =>
        /\ Len(all_embeddings) = Len(texts)
        /\ \A k \in 1..Len(texts) :
               /\ tasks[k].provider = "failed" =>
                      /\ all_embeddings[k].kind = "zeros"
                      /\ all_embeddings[k].dim = 768
               /\ tasks[k].provider = "ok" =>
                      all_embeddings[k] = Embedding(Truncate(texts[k]), task_type)
               /\ (tasks[k].provider = "not called" /\ ~Unencodable(KeyAt(k))) =>
                      all_embeddings[k] \in CachedFor(k)

\* a call has returned in which the provider failed for one text, answered
\* for another and a third was found in the cache
C14_Witness ==
    /\ epc = "done"
    /\ \E k, m, n \in 1..Len(texts) :
           /\ tasks[k].provider = "failed"
           /\ tasks[m].provider = "ok"
           /\ tasks[n].provider = "not called"
           /\ all_embeddings[k] = ZeroVector
           /\ all_embeddings[m].kind = "embedding"
           /\ all_embeddings[n].kind = "older"

\* C15: while no provider call of the batch embedding call has failed, the
\* provider is invoked at most once for the texts that share a truncated
\* text, and never for a text whose key was in the cache when the call
\* started, also when the equal texts stand in one batch of the async variant.
C15_OneProviderCallPerText ==
    (\A k \in 1..Len(tasks) : tasks[k].provider # "failed") =>
        /\ \A k, m \in 1..Len(tasks) :
               (k # m /\ Truncate(texts[k]) = Truncate(texts[m])) =>
                   (tasks[k].provider = "not called" \/ tasks[m].provider = "not called")
        /\ \A k \in 1..Len(tasks) :
               (\E p \in precached : p.key = KeyAt(k)) => tasks[k].provider = "not called"

\* C16: the cache entry of a request is determined by its purpose and its
\* truncated text: a lookup that hits yields a vector generated for the same
\* purpose and the same truncated text, and an entry stored for that purpose
\* and text is the entry the request looks up.
C16_KeyIsPurposeAndText ==
    \A k \in 1..Len(tasks) :
        LET purpose == IF emode = "sync" THEN "retrieval_document" ELSE task_type
        IN  /\ (tasks[k].state = "done" /\ tasks[k].provider = "not called"
                    /\ tasks[k].result.kind \in {"embedding", "older"}) =>
                   /\ tasks[k].result.task_type = purpose
                   /\ tasks[k].result.content = Truncate(texts[k])
            /\ \A p \in precached :
                   (p.embedding.task_type = purpose
                        /\ p.embedding.content = Truncate(texts[k])
                        /\ ~texts[k].tail) =>
                       p.key = KeyAt(k)

\* the request for the text at m looks the cache up after the one at k returned
LooksUpAfter(k, m) ==
    IF emode = "async"
    THEN (m - 1) \div EffectiveBatchSize > (k - 1) \div EffectiveBatchSize
    ELSE m > k

\* C17: once a request whose cache lookup missed has returned the provider's
\* vector, the cache holds that vector under the request's key, and a request
\* with the same key that looks up after it is a hit: it returns the same
\* vector and does not invoke the provider.
C17_WrittenBackBeforeReturn ==
    \A k \in 1..Len(tasks) :
        (tasks[k].state = "done" /\ tasks[k].provider = "ok") =>
            /\ get_embedding(ecache, KeyAt(k)) = tasks[k].result
            /\ \A m \in 1..Len(tasks) :
                   (/\ LooksUpAfter(k, m)
                    /\ KeyAt(m) = KeyAt(k)
                    /\ tasks[m].state # "new") =>
                       /\ tasks[m].state = "done"
                       /\ tasks[m].provider = "not called"
                       /\ tasks[m].result = tasks[k].result

\* a request found the vector an earlier request of the call had generated
C17_Witness ==
    \E k, m \in 1..Len(tasks) :
        /\ LooksUpAfter(k, m)
        /\ KeyAt(m) = KeyAt(k)
        /\ tasks[k].provider = "ok"
        /\ tasks[m].state = "done"
        /\ tasks[m].provider = "not called"
        /\ tasks[m].result = Embedding(Truncate(texts[k]), task_type)

\* C18: in both batch embedding operations a pacing delay lies between the end
\* of each batch and the first provider call of the next: a provider call for
\* a text of the batch number b (from 0) starts after at least b delays.
C18_PacedBetweenBatches ==
    emode \in {"sync", "async"} =>
        \A k \in 1..Len(tasks) :
            tasks[k].provider # "not called" =>
                tasks[k].slept >= (k - 1) \div EffectiveBatchSize

\* a provider call for the key of the request at k has answered
AnsweredFor(k) ==
    \E m \in 1..Len(tasks) : KeyAt(m) = KeyAt(k) /\ tasks[m].provider = "ok"

\* C29: no zero vector, None or exception is ever an entry of the embedding
\* cache.  A request whose provider call failed stores nothing: while no
\* provider call for its key has answered, the cache holds no entry for the
\* key and every other request for it, in the sync, the async and the search
\* operation, invokes the provider again; a request answered from the cache
\* gets a vector the provider once generated.
C29_FallbackNeverCached ==
    /\ \A e \in ecache : e.embedding.kind \in {"embedding", "older"}
    /\ \A k \in 1..Len(tasks) :
           /\ (tasks[k].provider = "failed" /\ ~AnsweredFor(k)) =>
                  /\ get_embedding(ecache, KeyAt(k)) = NoEmbedding
                  /\ \A m \in 1..Len(tasks) :
                         (KeyAt(m) = KeyAt(k) /\ tasks[m].state # "new") =>
                             tasks[m].provider \in {"called", "failed"}
           /\ (/\ tasks[k].state = "done"
               /\ tasks[k].provider = "not called"
               /\ ~Unencodable(KeyAt(k))) =>
                  tasks[k].result.kind \in {"embedding", "older"}

\* the provider failed for a text, the zero vector was returned for it, and
\* the next request for the same text, made after that one had returned,
\* invoked the provider again and failed again: the cache holds nothing
\* under the key
C29_Witness ==
    /\ epc = "done"
    /\ \E k, m \in 1..Len(tasks) :
           /\ LooksUpAfter(k, m)
           /\ KeyAt(m) = KeyAt(k)
           /\ tasks[k].provider = "failed"
           /\ tasks[m].provider = "failed"
           /\ all_embeddings[k] = ZeroVector
           /\ all_embeddings[m] = ZeroVector
           /\ get_embedding(ecache, KeyAt(k)) = NoEmbedding

(***************************************************************************)
(* EmbeddingCache: an InMemoryCache in front of one JSON file per text.    *)
(* The memory cache is the store of the first part of this module, built   *)
(* as EmbeddingCache.__init__ builds it; the directory is a function from  *)
(* the digest of a text to what its file holds.                            *)
(***************************************************************************)
\* max_memory_entries, as CacheManager constructs the EmbeddingCache
MaxMemoryEntries == 500

\* InMemoryCache(max_size=max_memory_entries, ttl_seconds=7200)
EmbeddingTtl == 7200

\* the seconds time.time() advances between two calls
ClockSteps == {3600}

EmbeddingTexts == {StrKey(<<"A">>), StrKey(<<"B">>)}

\* _get_cache_file: md5 of the text names the file
get_cache_file(raw) == Md5(raw.s)

EmbeddingFiles == {get_cache_file(raw) : raw \in EmbeddingTexts}

\* a file json.load cannot read
Corrupt == [kind |-> "corrupt", embedding |-> None, timestamp |-> 0]

\* cache_data; embedding is None when the record has no 'embedding'
Record(embedding, t) == [kind |-> "record", embedding |-> embedding, timestamp |-> t]

\* what an earlier process may have left in the directory
InitialFiles == {NoFile, Corrupt, Record(None, 0), Record("v1", 0)}

NeverSet == [set |-> FALSE, v |-> None, at |-> 0]

\* the entry of the memory cache is left as it is
RepopulateSkipped(c, k, embedding, t) == c

\* self.memory_cache.set(text, embedding) after a read of the file
Repopulate(c, k, embedding, t) == SetEffect(c, MaxMemoryEntries, k, embedding, t)

\* the call before, as the history of the next call keeps it
Before(call) ==
    [op |-> call.op, digest |-> call.digest, at |-> call.at, file |-> call.file,
     val |-> call.val]

EmbeddingCacheInit ==
    /\ ExtractIdle
    /\ ThreadsIdle
    /\ ChunkerIdle
    /\ EmbedIdle
    /\ AttrIdle
    /\ max_size = MaxMemoryEntries
    /\ ttl_seconds = EmbeddingTtl
    /\ cache = <<>>
    /\ hits = 0
    /\ misses = 0
    /\ now = 0
    /\ ret = Returned(None)
    /\ mru = <<>>
    /\ expired = FALSE
    /\ disk \in [EmbeddingFiles -> InitialFiles]
    /\ last_set = [f \in EmbeddingFiles |-> NeverSet]
    /\ eop = NoCall

\* EmbeddingCache.get_embedding
GetEmbedding(raw) ==
    LET k == generate_key(raw)
        r == GetEffect(cache, hits, misses, ttl_seconds, k, now)
        held == disk[get_cache_file(raw)]
        call == [op |-> "get", digest |-> k, at |-> now, held |-> held,
                 n |-> eop.n + 1, after |-> Before(eop)]
    IN  /\ eop.n < MaxCacheCalls
        /\ hits' = r.hits
        /\ misses' = r.misses
        /\ IF r.ret # None
           THEN /\ cache' = r.cache
                /\ ret' = Returned(r.ret)
                /\ eop' = call @@ [memory |-> "hit", file |-> "not read", val |-> r.ret]
           ELSE IF held.kind = "no file"
           THEN /\ cache' = r.cache
                /\ ret' = Returned(None)
                /\ eop' = call @@ [memory |-> "miss", file |-> "no file", val |-> None]
           ELSE IF held.kind = "record" /\ held.embedding # None
           THEN /\ cache' = Repopulate(r.cache, k, held.embedding, now)
                /\ ret' = Returned(held.embedding)
                /\ eop' = call @@ [memory |-> "miss", file |-> "read",
                                   val |-> held.embedding]
           ELSE /\ cache' = r.cache
                /\ ret' = Returned(None)
                /\ eop' = call @@ [memory |-> "miss", file |-> "unusable", val |-> None]
        /\ UNCHANGED <<max_size, ttl_seconds, now, disk, last_set, notEmbeddingCache>>

\* EmbeddingCache.set_embedding; the write of the file succeeds, fails at
\* open (the file stays as it was) or fails in json.dump (the file is cut)
SetEmbedding(raw, embedding, write) ==
    LET k == generate_key(raw)
        f == get_cache_file(raw)
    IN  /\ eop.n < MaxCacheCalls
        /\ cache' = SetEffect(cache, max_size, k, embedding, now)
        /\ disk' = CASE write = "written" -> [disk EXCEPT ![f] = Record(embedding, now)]
                     [] write = "dump failed" -> [disk EXCEPT ![f] = Corrupt]
                     [] OTHER -> disk
        /\ ret' = Returned(None)
        /\ last_set' = [last_set EXCEPT ![f] = [set |-> TRUE, v |-> embedding, at |-> now]]
        /\ eop' = [op |-> "set", digest |-> k, at |-> now, memory |-> "", file |-> write,
                   held |-> disk[f], val |-> None, n |-> eop.n + 1, after |-> Before(eop)]
        /\ UNCHANGED <<max_size, ttl_seconds, hits, misses, now, notEmbeddingCache>>

\* time passes between two calls
ClockTick(step) ==
    /\ now < MaxHours * 3600
    /\ now' = now + step
    /\ UNCHANGED <<max_size, ttl_seconds, cache, hits, misses, ret, diskVars,
                   notEmbeddingCache>>

EmbeddingCacheNext ==
    \/ \E raw \in EmbeddingTexts : GetEmbedding(raw)
    \/ \E raw \in EmbeddingTexts, v \in Values,
          write \in {"written", "open failed", "dump failed"} : SetEmbedding(raw, v, write)
    \/ \E step \in ClockSteps : ClockTick(step)

EmbeddingCacheSpec == EmbeddingCacheInit /\ [][EmbeddingCacheNext]_vars

(***************************************************************************)
(* Properties of the EmbeddingCache                                        *)
(***************************************************************************)
\* C19: a get_embedding of a text more than 7200 seconds after the last
\* set_embedding(text, v) of that text does not return v.
C19_NeverReturnsExpired ==
    (/\ eop.op = "get"
     /\ last_set[eop.digest].set
     /\ eop.at - last_set[eop.digest].at > EmbeddingTtl) =>
        eop.val # last_set[eop.digest].v

\* C20: get_embedding reads the file only when the memory cache missed; when
\* the file holds an embedding the call returns it and the memory cache
\* holds it, and the next get_embedding of the text is answered from the
\* memory cache with the same embedding; when there is no file the call
\* returns None.
C20_DiskFallback ==
    eop.op = "get" =>
        /\ eop.file # "not read" => eop.memory = "miss"
        /\ (eop.memory = "miss" /\ eop.held.kind = "record" /\ eop.held.embedding # None) =>
               /\ ret = Returned(eop.held.embedding)
               /\ eop.digest \in Keys(cache)
               /\ Entry(cache, eop.digest).data = eop.held.embedding
        /\ (eop.memory = "miss" /\ eop.held.kind = "no file") => ret = Returned(None)
        /\ (/\ eop.after.op = "get"
            /\ eop.after.digest = eop.digest
            /\ eop.after.file = "read"
            /\ eop.at - eop.after.at <= EmbeddingTtl) =>
               /\ eop.memory = "hit"
               /\ eop.file = "not read"
               /\ ret = Returned(eop.after.val)

\* an embedding set in this run expired in the memory cache, was then read
\* from its file, and the get that followed was answered from the memory cache
C20_Witness ==
    /\ eop.op = "get"
    /\ eop.memory = "hit"
    /\ eop.after.op = "get"
    /\ eop.after.digest = eop.digest
    /\ eop.after.file = "read"
    /\ last_set[eop.digest].set
    /\ eop.after.at - last_set[eop.digest].at > EmbeddingTtl
    /\ ret = Returned(last_set[eop.digest].v)

\* the step is a call of the EmbeddingCache
IsCall(op) == eop'.n = eop.n + 1 /\ eop'.op = op

\* the step is a set_embedding whose write of the file fails
FailedWrite == IsCall("set") /\ eop'.file \in {"open failed", "dump failed"}

\* the step is a get_embedding that finds a file it cannot use
FailedRead == IsCall("get") /\ eop'.file = "unusable"

\* C21 as stated: a set_embedding whose write fails returns and sets the
\* memory entry, and the get_embedding after it returns the value; a
\* get_embedding whose read fails returns None and leaves the memory cache
\* as it was.
C21_Original ==
    [][/\ FailedWrite =>
              /\ ret' = Returned(None)
              /\ eop'.digest \in Keys(cache')
              /\ Entry(cache', eop'.digest).data = last_set'[eop'.digest].v
       /\ FailedRead =>
              /\ ret' = Returned(None)
              /\ cache' = cache]_vars

\* C21: a set_embedding whose write fails returns and sets the memory entry,
\* and a get_embedding of the text that follows it within the TTL returns
\* the value; a get_embedding whose read fails returns None, adds nothing
\* to the memory cache and leaves every entry of it as it was, but for an
\* expired entry of the text itself, which the memory lookup has deleted.
C21_DiskFailureNeverFatal ==
    [][/\ FailedWrite =>
              /\ ret' = Returned(None)
              /\ eop'.digest \in Keys(cache')
              /\ Entry(cache', eop'.digest).data = last_set'[eop'.digest].v
       /\ (/\ IsCall("get")
           /\ eop.op = "set"
           /\ eop.file \in {"open failed", "dump failed"}
           /\ eop'.digest = eop.digest
           /\ now - eop.at <= EmbeddingTtl) =>
              /\ ret' = Returned(last_set[eop.digest].v)
              /\ eop'.memory = "hit"
       /\ FailedRead =>
              /\ ret' = Returned(None)
              /\ cache' = DelKey(cache, eop'.digest)
              /\ \A k \in Keys(cache) :
                     (k # eop'.digest \/ ~IsExpired(Entry(cache, k), now, ttl_seconds)) =>
                         (k \in Keys(cache') /\ Entry(cache', k) = Entry(cache, k))]_vars

\* a set whose write cut the file short was followed, after the TTL, by a get
\* that found the expired memory entry and the unreadable file
C21_Witness ==
    /\ eop.op = "get"
    /\ eop.file = "unusable"
    /\ eop.held = Corrupt
    /\ eop.after.op = "set"
    /\ eop.after.file = "dump failed"
    /\ eop.after.digest = eop.digest
    /\ eop.at - eop.after.at > EmbeddingTtl
    /\ ret = Returned(None)
    /\ eop.digest \notin Keys(cache)

(***************************************************************************)
(* Answer attribution: AnswerAttributionMapper.create_attributed_answer.   *)
(* An answer is a string or not one (None); a string is the sequence of    *)
(* its paragraphs (separated by a blank line), a paragraph the sequence of *)
(* the lengths of its sentences, each ended by '.', a space between two.   *)
(* The answers here hold no two **headers**, so that they are split by     *)
(* paragraphs.  A segment is named by its place in the answer and its      *)
(* length; place 0 names the whole answer.                                 *)
(***************************************************************************)
AnswerSentenceLens == {20, 40}

AnswerParagraphs == UNION {[1..n -> AnswerSentenceLens] : n \in 1..MaxAnswerParts}

\* an answer of more than ten paragraphs, each long enough for a segment
LongAnswer == [is_str |-> TRUE, paragraphs |-> [n \in 1..LongAnswerParagraphs |-> <<40, 40>>]]

Answers ==
    {[is_str |-> FALSE, paragraphs |-> <<>>], LongAnswer}
    \cup [is_str : {TRUE},
          paragraphs : UNION {[1..n -> AnswerParagraphs] : n \in 0..MaxAnswerParts}]

RECURSIVE SumSeq(_)
SumSeq(q) == IF q = <<>> THEN 0 ELSE q[1] + SumSeq(Tail(q))

RECURSIVE Flatten(_)
Flatten(qq) == IF qq = <<>> THEN <<>> ELSE qq[1] \o Flatten(Tail(qq))

\* len(p.strip()) of a paragraph of the answer
ParagraphLen(para) == SumSeq(para) + Len(para) + (Len(para) - 1)

\* len(answer)
AnswerLen(a) ==
    IF a.paragraphs = <<>> THEN 0
    ELSE SumSeq([n \in 1..Len(a.paragraphs) |-> ParagraphLen(a.paragraphs[n])])
         + 2 * (Len(a.paragraphs) - 1)

Segment(place, length) == [place |-> place, len |-> length]

\* segments without the limit
TakeAll(q, n) == q

\* segments[:10]
Take(q, n) == SubSeq(q, 1, Min(Len(q), n))

\* AnswerAttributionMapper._split_answer_into_segments
split_answer_into_segments(a) ==
    LET paras == [n \in 1..Len(a.paragraphs) |-> Segment(n, ParagraphLen(a.paragraphs[n]))]
        long_paras == SelectSeq(paras, LAMBDA g : g.len > 50)
        lens == Flatten(a.paragraphs)
        sentences == [n \in 1..Len(lens) |-> Segment(n, lens[n])]
        long_sentences == SelectSeq(sentences, LAMBDA g : g.len > 30)
    IN  Take(IF long_paras # <<>> THEN long_paras ELSE long_sentences, 10)

(***************************************************************************)
(* What the mapping model does at one call: it raises, it returns no text, *)
(* text without a JSON object, text whose JSON does not parse, JSON whose   *)
(* values have a type that makes the parsing raise TypeError, or a JSON    *)
(* object with indices, a confidence (in tenths, or not a number) and an   *)
(* attribution type.                                                       *)
(***************************************************************************)
\* an item of the JSON array of indices: an int, a float (1.0), a string
\* ("1") or a boolean (true), with its numeric value
IndexItem(type, v) == [type |-> type, v |-> v]

IntItem(v) == IndexItem("int", v)

IndexLists ==
    {<<>>, <<IntItem(0)>>, <<IntItem(1), IntItem(0)>>,
     <<IntItem(0), IntItem(7), IntItem(-1), IndexItem("float", 1), IndexItem("str", 1),
       IndexItem("bool", 1)>>}

ConfidenceTenths == {0, 8, 15}

NotANumber == 999

AttributionTypes == {"direct", "guess"}

JsonResponses ==
    [kind : {"json"}, indices : IndexLists,
     confidence : ConfidenceTenths \cup {NotANumber}, attribution_type : AttributionTypes]

FailedResponses ==
    [kind : {"raises", "no text", "no json", "bad json", "bad type"}, indices : {<<>>},
     confidence : {0}, attribution_type : {""}]

ModelResponses == JsonResponses \cup FailedResponses

\* the responses followed for an answer: all of them for a short answer, a
\* failure and a well-formed one for the long answer
ResponsesTo(a) ==
    IF Len(a.paragraphs) <= MaxAnswerParts THEN ModelResponses
    ELSE {r \in ModelResponses :
             \/ r.kind = "raises"
             \/ /\ r.kind = "json"
                /\ r.indices = <<IntItem(0)>>
                /\ r.confidence = 8
                /\ r.attribution_type = "direct"}

\* the model call raised or returned nothing
ModelFailed(r) == r.kind \in {"raises", "no text"}

Attribution(segment, indices, confidence, attribution_type) ==
    [answer_segment |-> segment, supporting_paragraphs |-> indices,
     confidence |-> confidence, attribution_type |-> attribution_type]

NoAttribution == Attribution(Segment(0, 0), <<>>, 0, "None")

\* isinstance(idx, int): a bool is an int in Python
IsInstanceInt(idx) == idx.type \in {"int", "bool"}

\* an index filter that forgets the lower bound
ValidIndexBelowTotal(idx, total_paragraphs) ==
    IsInstanceInt(idx) /\ idx.v < total_paragraphs

\* isinstance(idx, int) and 0 <= idx < total_paragraphs
ValidIndex(idx, total_paragraphs) ==
    IsInstanceInt(idx) /\ 0 <= idx.v /\ idx.v < total_paragraphs

\* AnswerAttributionMapper._parse_attribution_response
parse_attribution_response(r, segment, total_paragraphs) ==
    LET valid_indices == SelectSeq(r.indices, LAMBDA idx : ValidIndex(idx, total_paragraphs))
    IN  IF r.kind # "json" THEN NoAttribution
        ELSE IF r.confidence = NotANumber THEN NoAttribution
        ELSE IF valid_indices = <<>> THEN NoAttribution
        ELSE Attribution(segment, valid_indices, r.confidence, r.attribution_type)

\* a mapping that answers a failed call with an Attribution to no paragraph
map_segment_zero_filled(r, segment, total_paragraphs) ==
    IF ModelFailed(r) THEN Attribution(segment, <<>>, 0, "synthesized")
    ELSE parse_attribution_response(r, segment, total_paragraphs)

\* AnswerAttributionMapper._map_segment_to_paragraphs
map_segment_to_paragraphs(r, segment, total_paragraphs) ==
    IF ModelFailed(r) THEN NoAttribution
    ELSE parse_attribution_response(r, segment, total_paragraphs)

\* AnswerAttributionMapper._calculate_overall_confidence, as a fraction
calculate_overall_confidence(attrs) ==
    LET weights == [n \in 1..Len(attrs) |-> attrs[n].answer_segment.len]
        weighted == [n \in 1..Len(attrs) |-> attrs[n].confidence * weights[n]]
    IN  IF attrs = <<>> \/ SumSeq(weights) = 0 THEN [num |-> 0, den |-> 1]
        ELSE [num |-> SumSeq(weighted), den |-> 10 * SumSeq(weights)]

AttributedAnswer(a, attrs, n, overall) ==
    [answer |-> a, attributions |-> attrs, paragraphs |-> n, overall_confidence |-> overall]

\* AnswerAttributionMapper._create_fallback_attribution
create_fallback_attribution(a, n) ==
    AttributedAnswer(a,
                     <<Attribution(Segment(0, AnswerLen(a)), [k \in 1..n |-> IntItem(k - 1)],
                                   5, "synthesized")>>,
                     n, [num |-> 5, den |-> 10])

AttrInit ==
    /\ ExtractIdle
    /\ DiskIdle
    /\ CacheIdle
    /\ ThreadsIdle
    /\ ChunkerIdle
    /\ EmbedIdle
    /\ question \in {"str", "None"}
    /\ answer \in Answers
    /\ paragraphs \in 0..MaxParagraphs
    /\ answer_segments = <<>>
    /\ seg_i = 0
    /\ attributions = <<>>
    /\ responses = <<>>
    /\ attributed = NoAnswer
    /\ apc = "call"

\* the end of the try block: the overall confidence and the AttributedAnswer
ReturnAttributed(attrs) ==
    /\ attributed' = AttributedAnswer(answer, attrs, paragraphs,
                                      calculate_overall_confidence(attrs))
    /\ apc' = "done"

\* create_attributed_answer up to the first call of the mapping model.
\* question[:50] is evaluated for the log line before the try block: a
\* question that is no string raises to the caller.  An answer that is no
\* string makes re.split raise, which the except clause turns into the
\* fallback.
AttrCall ==
    /\ apc = "call"
    /\ IF question # "str"
       THEN /\ apc' = "raised"
            /\ UNCHANGED <<answer_segments, attributed>>
       ELSE IF ~answer.is_str
       THEN /\ attributed' = create_fallback_attribution(answer, paragraphs)
            /\ apc' = "done"
            /\ UNCHANGED answer_segments
       ELSE /\ answer_segments' = split_answer_into_segments(answer)
            /\ IF answer_segments' = <<>>
               THEN ReturnAttributed(<<>>)
               ELSE apc' = "map" /\ UNCHANGED attributed
    /\ UNCHANGED <<question, answer, paragraphs, seg_i, attributions, responses, notAttr>>

\* one pass of the loop over the segments: the mapping model is called and
\* does r; the last pass goes on to the return
MapSegment(r) ==
    /\ apc = "map"
    /\ r \in ResponsesTo(answer)
    /\ LET segment == answer_segments[seg_i + 1]
           attribution == map_segment_to_paragraphs(r, segment, paragraphs)
           attrs == IF attribution # NoAttribution
                    THEN Append(attributions, attribution) ELSE attributions
       IN  /\ attributions' = attrs
           /\ seg_i' = seg_i + 1
           /\ responses' = Append(responses, r)
           /\ IF seg_i' = Len(answer_segments)
              THEN ReturnAttributed(attrs)
              ELSE UNCHANGED <<attributed, apc>>
    /\ UNCHANGED <<question, answer, paragraphs, answer_segments, notAttr>>

AttrNext ==
    \/ AttrCall
    \/ \E r \in ModelResponses : MapSegment(r)

AttrSpec == AttrInit /\ [][AttrNext]_vars

\* every call of the mapping model returns or raises, and the coroutine is
\* run to its end
AttrLiveSpec == AttrSpec /\ WF_vars(AttrNext)

(***************************************************************************)
(* Properties of answer attribution                                        *)
(***************************************************************************)
\* C10: for a non-empty answer, if every call of the mapping model fails
\* (raises or returns nothing), create_attributed_answer returns the
\* fallback: one Attribution of the whole answer to all paragraph indices,
\* of type synthesized and confidence 0.5, with overall_confidence 0.5.
C10_FallbackWhenModelFails ==
    (/\ apc = "done"
     /\ answer.is_str
     /\ answer.paragraphs # <<>>
     /\ \A n \in 1..Len(responses) : ModelFailed(responses[n]))
    => attributed = create_fallback_attribution(answer, paragraphs)

\* C11: in every AttributedAnswer returned, on the normal and on the
\* fallback path, each index of each Attribution's supporting_paragraphs is
\* an integer in [0, len(paragraphs)).
C11_IndicesInRange ==
    apc = "done" =>
        \A n \in 1..Len(attributed.attributions) :
            \A m \in 1..Len(attributed.attributions[n].supporting_paragraphs) :
                LET idx == attributed.attributions[n].supporting_paragraphs[m]
                IN  /\ idx.type \in {"int", "bool"}
                    /\ 0 <= idx.v
                    /\ idx.v < paragraphs

\* an answer was returned with an Attribution made from a model response
\* that held indices out of range
C11_Witness ==
    /\ apc = "done"
    /\ \E n \in 1..Len(responses) :
           /\ responses[n].kind = "json"
           /\ \E m \in 1..Len(responses[n].indices) : responses[n].indices[m].v = 7
           /\ \E k \in 1..Len(attributed.attributions) :
                  attributed.attributions[k].answer_segment = answer_segments[n]

\* C12: create_attributed_answer ends by returning an AttributedAnswer
\* whose answer and paragraphs are the inputs, after at most 10 calls of
\* the mapping model, and raises nothing to the caller, whatever
\* segmentation, the model or the parsing of its response does.
C12_ReturnsWithinTenCalls ==
    /\ [](/\ Len(responses) <= 10
          /\ question = "str" => apc # "raised"
          /\ apc = "done" => /\ attributed.answer = answer
                             /\ attributed.paragraphs = paragraphs)
    /\ <>(apc = "done" \/ question # "str")

\* the long answer was returned after ten calls of the model
C12_Witness ==
    /\ apc = "done"
    /\ Len(answer.paragraphs) > 10
    /\ Len(responses) = 10
    /\ Len(attributed.attributions) = 5

\* C13: every Attribution of a returned AttributedAnswer has a confidence in
\* [0, 1] and an attribution_type among direct, inferred, synthesized,
\* whatever the structured response of the mapping model holds.
C13_DataModel ==
    apc = "done" =>
        \A n \in 1..Len(attributed.attributions) :
            /\ 0 <= attributed.attributions[n].confidence
            /\ attributed.attributions[n].confidence <= 10
            /\ attributed.attributions[n].attribution_type
                   \in {"direct", "inferred", "synthesized"}

\* the response is a JSON object with a numeric confidence and at least one
\* integer index in [0, len(paragraphs))
Productive(r) ==
    /\ r.kind = "json"
    /\ r.confidence # NotANumber
    /\ \E m \in 1..Len(r.indices) : ValidIndex(r.indices[m], paragraphs)

\* the segments mapped so far whose response was productive, in answer order
ProductiveSegments ==
    SelectSeq([n \in 1..Len(responses) |-> n], LAMBDA n : Productive(responses[n]))

\* C28: the segments are mapped one at a time in answer order, one model
\* call each; a segment whose call fails, whose response does not parse or
\* whose response leaves no valid index adds no Attribution, and the later
\* segments are still mapped: the attributions are those of the segments
\* with a productive response, one each, in segment order, and the answer
\* returned holds them once every segment has been mapped.
C28_OnePerProductiveSegment ==
    (question = "str" /\ answer.is_str) =>
        /\ Len(responses) = seg_i
        /\ seg_i <= Len(answer_segments)
        /\ Len(attributions) = Len(ProductiveSegments)
        /\ \A k \in 1..Len(attributions) :
               /\ attributions[k].answer_segment = answer_segments[ProductiveSegments[k]]
               /\ attributions[k].supporting_paragraphs # <<>>
        /\ apc = "done" => /\ seg_i = Len(answer_segments)
                           /\ attributed.attributions = attributions

\* an answer was returned after a call that raised, a response without
\* JSON or without a valid index, and a later segment that was attributed
C28_Witness ==
    /\ apc = "done"
    /\ \E n, m \in 1..Len(responses) :
           /\ n < m
           /\ ~Productive(responses[n])
           /\ Productive(responses[m])
           /\ attributed.attributions
                  = <<Attribution(answer_segments[m],
                                  SelectSeq(responses[m].indices,
                                            LAMBDA idx : ValidIndex(idx, paragraphs)),
                                  responses[m].confidence,
                                  responses[m].attribution_type)>>

(***************************************************************************)
(* ParagraphExtractor.extract_paragraphs_from_chunk                         *)
(* (paragraph_extractor.py).  A chunk is the sequence of its lines, the     *)
(* text being the lines joined by newlines.  A line is one of: an empty     *)
(* line, a markdown header of 10 characters, a table of contents line of    *)
(* 60 characters holding the word overview, or plain prose of 30, 49 or 50  *)
(* characters.  No line starts or ends with white space.                    *)
(***************************************************************************)
MaxLines == 5

MinParagraphLength == 50

TocMaxLength == 500

LineKinds == {"blank", "header", "toc", "short", "almost", "full"}

LineLen(line) ==
    CASE line = "blank" -> 0
      [] line = "header" -> 10
      [] line = "toc" -> 60
      [] line = "short" -> 30
      [] line = "almost" -> 49
      [] line = "full" -> 50

ChunkTexts == UNION {[1..n -> LineKinds] : n \in 0..MaxLines}

\* the lines a..b hold a character that is not white space
HasContent(lines, a, b) == \E k \in a..b : lines[k] # "blank"

\* str.strip() of the lines a..b, as the range of lines that is left
Strip(lines, a, b) ==
    <<CHOOSE k \in a..b : lines[k] # "blank" /\ ~HasContent(lines, a, k - 1),
      CHOOSE k \in a..b : lines[k] # "blank" /\ ~HasContent(lines, k + 1, b)>>

\* len() of the text of the lines a..b: the lines and the newlines between
RECURSIVE TextLen(_, _, _)
TextLen(lines, a, b) ==
    IF a > b THEN 0
    ELSE IF a = b THEN LineLen(lines[a])
    ELSE LineLen(lines[a]) + 1 + TextLen(lines, a + 1, b)

\* _split_by_section_markers: is_header, one of section_patterns matches
is_header(line) == line = "header"

\* the loop of _split_by_section_markers from line k on; current_section is
\* the lines start..k-1
RECURSIVE SplitFrom(_, _, _, _)
SplitFrom(lines, k, start, out) ==
    IF k > Len(lines)
    THEN IF HasContent(lines, start, Len(lines))
         THEN Append(out, Strip(lines, start, Len(lines)))
         ELSE out
    ELSE IF is_header(lines[k]) /\ HasContent(lines, start, k - 1)
         THEN SplitFrom(lines, k + 1, k, Append(out, Strip(lines, start, k - 1)))
         ELSE SplitFrom(lines, k + 1, start, out)

_split_by_section_markers(lines) ==
    LET found == SplitFrom(lines, 1, 1, <<>>)
    IN  IF found = <<>> THEN <<<<1, Len(lines)>>>> ELSE found

\* re.split(r'\n\s*\n', section_text) followed by strip and the skip of
\* empty pieces: the maximal runs of lines that are not blank
RECURSIVE RunsFrom(_, _, _, _, _)
RunsFrom(lines, k, last, start, out) ==
    IF k > last
    THEN IF start <= last THEN Append(out, <<start, last>>) ELSE out
    ELSE IF lines[k] = "blank"
         THEN RunsFrom(lines, k + 1, last, k + 1,
                       IF start < k THEN Append(out, <<start, k - 1>>) ELSE out)
         ELSE RunsFrom(lines, k + 1, last, start, out)

\* the header pattern ends at the end of the first line, and the lines
\* modelled hold no figure reference and no bold header
_is_header_or_figure_only(lines, para) ==
    para[1] = para[2] /\ lines[para[1]] = "header"

\* no line holds a '|'; overview is one of toc_indicators
_is_table_of_contents(lines, para) ==
    /\ \E k \in para[1]..para[2] : lines[k] = "toc"
    /\ TextLen(lines, para[1], para[2]) < TocMaxLength

_extract_paragraphs_from_section(lines, section) ==
    SelectSeq(RunsFrom(lines, section[1], section[2], section[1], <<>>),
              LAMBDA para : /\ ~_is_header_or_figure_only(lines, para)
                            /\ ~_is_table_of_contents(lines, para))

Paragraph(para, index) == [content |-> para, paragraph_index |-> index]

SkippedNever(lines, para) == FALSE

\* line 64: len(para_text.strip()) < 50
Skipped(lines, para) == TextLen(lines, para[1], para[2]) < MinParagraphLength

\* the inner loop of extract_paragraphs_from_chunk over section_paragraphs
\* from the n-th on: <<paragraphs, paragraph_index>> at its end
RECURSIVE InnerLoop(_, _, _, _, _)
InnerLoop(lines, section_paragraphs, n, out, index) ==
    IF n > Len(section_paragraphs) THEN <<out, index>>
    ELSE IF Skipped(lines, section_paragraphs[n])
         THEN InnerLoop(lines, section_paragraphs, n + 1, out, index)
         ELSE InnerLoop(lines, section_paragraphs, n + 1,
                        Append(out, Paragraph(section_paragraphs[n], index)),
                        index + 1)

ExtractInit ==
    /\ CacheIdle
    /\ ThreadsIdle
    /\ ChunkerIdle
    /\ EmbedIdle
    /\ AttrIdle
    /\ DiskIdle
    /\ ExtractIdle

\* extract_paragraphs_from_chunk up to the outer loop
ExtractCall(lines) ==
    /\ xpc = "idle"
    /\ chunk_text' = lines
    /\ chunk_paragraphs' = <<>>
    /\ paragraph_index' = 0
    /\ section_i' = 0
    /\ IF ~HasContent(lines, 1, Len(lines))
       THEN /\ sections' = <<>>
            /\ xpc' = "done"
       ELSE /\ sections' = _split_by_section_markers(lines)
            /\ xpc' = "loop"
    /\ UNCHANGED notExtract

\* one pass of the outer loop: the paragraphs of the next section
ExtractSection ==
    /\ xpc = "loop"
    /\ section_i < Len(sections)
    /\ LET section == sections[section_i + 1]
           after == InnerLoop(chunk_text,
                              _extract_paragraphs_from_section(chunk_text, section),
                              1, chunk_paragraphs, paragraph_index)
       IN  /\ chunk_paragraphs' = after[1]
           /\ paragraph_index' = after[2]
    /\ section_i' = section_i + 1
    /\ UNCHANGED <<chunk_text, sections, xpc>>
    /\ UNCHANGED notExtract

\* the outer loop is over: return paragraphs
ExtractReturn ==
    /\ xpc = "loop"
    /\ section_i = Len(sections)
    /\ xpc' = "done"
    /\ UNCHANGED <<chunk_text, sections, section_i, chunk_paragraphs, paragraph_index>>
    /\ UNCHANGED notExtract

ExtractNext ==
    \/ \E lines \in ChunkTexts : ExtractCall(lines)
    \/ ExtractSection
    \/ ExtractReturn

ExtractSpec == ExtractInit /\ [][ExtractNext]_vars

\* the lines a..b of the chunk are a paragraph of the chunk: lines that are
\* not blank, with a blank line, a header or an end of the chunk on either
\* side, and no header after the first line
IsParagraph(a, b) ==
    /\ a <= b
    /\ \A k \in a..b : chunk_text[k] # "blank"
    /\ \A k \in (a + 1)..b : chunk_text[k] # "header"
    /\ a = 1 \/ chunk_text[a - 1] = "blank" \/ chunk_text[a] = "header"
    /\ b = Len(chunk_text) \/ chunk_text[b + 1] \in {"blank", "header"}

\* C25: extract_paragraphs_from_chunk returns no paragraph whose stripped
\* content is under 50 characters and every paragraph of the chunk of 50
\* characters or more that is not a table of contents; the paragraphs
\* returned are numbered 0, 1, ..., n-1 in the order of the document, and
\* paragraph_index counts the retained paragraphs only.
C25_RetainedAreNumbered ==
    /\ paragraph_index = Len(chunk_paragraphs)
    /\ \A n \in 1..Len(chunk_paragraphs) :
           /\ chunk_paragraphs[n].paragraph_index = n - 1
           /\ TextLen(chunk_text, chunk_paragraphs[n].content[1],
                      chunk_paragraphs[n].content[2]) >= MinParagraphLength
           /\ n > 1 => chunk_paragraphs[n - 1].content[2]
                           < chunk_paragraphs[n].content[1]
    /\ xpc = "done" =>
           \A a, b \in 1..Len(chunk_text) :
               IsParagraph(a, b) =>
                   ((\E n \in 1..Len(chunk_paragraphs) :
                         chunk_paragraphs[n].content = <<a, b>>)
                    <=> /\ TextLen(chunk_text, a, b) >= MinParagraphLength
                        /\ \A k \in a..b : chunk_text[k] # "toc")

\* two paragraphs were returned, numbered 0 and 1, and between them stood a
\* header followed by a short sentence, which was dropped
C25_Witness ==
    /\ xpc = "done"
    /\ Len(chunk_paragraphs) = 2
    /\ \E a \in 1..Len(chunk_text) - 1 :
           /\ chunk_text[a] = "header"
           /\ chunk_text[a + 1] = "short"
           /\ IsParagraph(a, a + 1)
           /\ chunk_paragraphs[1].content[2] < a
           /\ a + 1 < chunk_paragraphs[2].content[1]

(***************************************************************************)
(* EmbeddingCache.set_embedding run by two threads.  The memory cache      *)
(* takes its lock for the whole of InMemoryCache.set; nothing is held      *)
(* while the file is opened and written, so the steps of a call are: the   *)
(* memory set, the open (which empties the file) and the dump with the     *)
(* close.  Two threads that have the same file open write into it at the   *)
(* same offsets: what the file holds after the later close is the record   *)
(* of that thread or a mixture json.load cannot read.                      *)
(***************************************************************************)
SetFrame(raw, embedding) ==
    [op |-> "set_embedding", text |-> raw, embedding |-> embedding, timestamp |-> 0,
     write |-> "", shared |-> FALSE]

\* the threads other than t that have the file of t's text open
Writers(t) ==
    {u \in Threads \ {t} : /\ pc[u] = "dump"
                           /\ get_cache_file(frame[u].text) = get_cache_file(frame[t].text)}

RaceInit ==
    /\ ExtractIdle
    /\ ThreadsIdle
    /\ ChunkerIdle
    /\ EmbedIdle
    /\ AttrIdle
    /\ max_size = MaxMemoryEntries
    /\ ttl_seconds = EmbeddingTtl
    /\ cache = <<>>
    /\ hits = 0
    /\ misses = 0
    /\ now = 0
    /\ ret = Returned(None)
    /\ mru = <<>>
    /\ expired = FALSE
    /\ disk \in [EmbeddingFiles -> {NoFile, Record("v1", 0)}]
    /\ last_set = [f \in EmbeddingFiles |-> NeverSet]
    /\ eop = NoCall

\* a thread calls set_embedding(text, embedding)
SetEmbeddingCall(t, raw, embedding) ==
    /\ pc[t] = "idle"
    /\ frame' = [frame EXCEPT ![t] = SetFrame(raw, embedding)]
    /\ pc' = [pc EXCEPT ![t] = "memory_set"]
    /\ UNCHANGED <<cacheVars, diskVars, lock, snap, opsDone, otherParts>>

\* self.memory_cache.set(text, embedding), under the lock of the memory cache
SetEmbeddingMemory(t) ==
    /\ pc[t] = "memory_set"
    /\ cache' = SetEffect(cache, max_size, generate_key(frame[t].text),
                          frame[t].embedding, now)
    /\ pc' = [pc EXCEPT ![t] = "open"]
    /\ UNCHANGED <<max_size, ttl_seconds, hits, misses, now, ret, mru, expired,
                   diskVars, lock, frame, snap, opsDone, otherParts>>

\* cache_data is built and open(cache_file, 'w') empties the file, or raises
SetEmbeddingOpen(t, ok) ==
    /\ pc[t] = "open"
    /\ LET f == get_cache_file(frame[t].text)
       IN  IF ok
           THEN /\ disk' = [disk EXCEPT ![f] = Corrupt]
                /\ frame' = [u \in Threads |->
                                IF u = t
                                THEN [frame[t] EXCEPT !.timestamp = now,
                                                      !.shared = Writers(t) # {}]
                                ELSE IF u \in Writers(t)
                                     THEN [frame[u] EXCEPT !.shared = TRUE]
                                     ELSE frame[u]]
                /\ pc' = [pc EXCEPT ![t] = "dump"]
           ELSE /\ disk' = disk
                /\ frame' = [frame EXCEPT ![t].write = "open failed"]
                /\ pc' = [pc EXCEPT ![t] = "done"]
    /\ UNCHANGED <<cacheVars, last_set, eop, lock, snap, opsDone,
                   chunkVars, embedVars, attrVars, extractVars>>

\* json.dump(cache_data, f) and the close of the file: the record is
\* written, json.dump raises, or the bytes of two writers are mixed
SetEmbeddingDump(t, write) ==
    /\ pc[t] = "dump"
    /\ write = "mixed" => frame[t].shared
    /\ LET f == get_cache_file(frame[t].text)
       IN  disk' = [disk EXCEPT ![f] =
                       IF write = "written"
                       THEN Record(frame[t].embedding, frame[t].timestamp)
                       ELSE Corrupt]
    /\ frame' = [frame EXCEPT ![t].write = write]
    /\ pc' = [pc EXCEPT ![t] = "done"]
    /\ UNCHANGED <<cacheVars, last_set, eop, lock, snap, opsDone,
                   chunkVars, embedVars, attrVars, extractVars>>

\* get_embedding of a text that was set, once no thread is inside set_embedding
GetEmbeddingAfter(raw) ==
    /\ \A t \in Threads : pc[t] = "done"
    /\ \E t \in Threads : frame[t].text = raw
    /\ GetEmbedding(raw)

\* time passes once no thread is inside set_embedding
ClockTickAfter(step) ==
    /\ \A t \in Threads : pc[t] = "done"
    /\ ClockTick(step)

RaceNext ==
    \/ \E t \in Threads, raw \in EmbeddingTexts, v \in Values : SetEmbeddingCall(t, raw, v)
    \/ \E t \in Threads : SetEmbeddingMemory(t)
    \/ \E t \in Threads, ok \in BOOLEAN : SetEmbeddingOpen(t, ok)
    \/ \E t \in Threads, write \in {"written", "dump failed", "mixed"} :
           SetEmbeddingDump(t, write)
    \/ \E raw \in EmbeddingTexts : GetEmbeddingAfter(raw)
    \/ \E step \in ClockSteps : ClockTickAfter(step)

RaceSpec == RaceInit /\ [][RaceNext]_vars

\* C30: when two threads have completed set_embedding for the same text with
\* different vectors, neither call having met an error of the file system,
\* the file of the text holds a record with the vector the memory cache
\* holds for the text, so that get_embedding returns that vector from the
\* memory cache and from the file alike.
C30_MemoryMatchesDisk ==
    LET k == generate_key(frame["t1"].text)
        f == get_cache_file(frame["t1"].text)
    IN  (/\ \A t \in Threads : pc[t] = "done" /\ frame[t].write \in {"written", "mixed"}
         /\ frame["t1"].text = frame["t2"].text
         /\ frame["t1"].embedding # frame["t2"].embedding
         /\ k \in Keys(cache)) =>
            /\ disk[f].kind = "record"
            /\ disk[f].embedding = Entry(cache, k).data

====
